---------------------------- MODULE Spec2Model ----------------------------
(***************************************************************************)
(* Model of the deterministic scoring and ranking pipeline of Quantara:    *)
(* the Risk Engine, the Signal Engine and the Recommendation Engine.       *)
(*                                                                         *)
(* Numbers.  Every Python float x is represented by the integer 100 * x    *)
(* (two decimal places): a score of 33.33 is 3333, a beta of 1.2 is 120,   *)
(* a weight of 0.20 is 20.  Each Python arithmetic expression is computed  *)
(* exactly and rounded once, to the nearest hundredth, where it divides    *)
(* (RoundDiv); sums, differences and products by whole numbers are exact.  *)
(* Integer arguments (quarters, counts, top_n) are plain integers.         *)
(*                                                                         *)
(* Optional values.  None is the empty sequence, a supplied value x is the *)
(* one-element sequence <<x>>; a dict key that is absent is None.          *)
(***************************************************************************)
EXTENDS Integers, Sequences, FiniteSets, TLC

VARIABLES pc, op, args, result, engine, heap, threads, yahoo, llm

vars == <<pc, op, args, result, engine, heap, threads, yahoo, llm>>

---------------------------------------------------------------------------
(* Arithmetic helpers: Python's min, max, abs and float division.          *)

None == << >>

Some(x) == <<x>>

Get(opt, default) == IF opt = None THEN default ELSE opt[1]

Min(a, b) == IF a <= b THEN a ELSE b

Max(a, b) == IF a >= b THEN a ELSE b

Abs(x) == IF x < 0 THEN 0 - x ELSE x

\* n / d for d > 0, rounded to the nearest integer, symmetric in the sign of n
RoundDiv(n, d) ==
    IF n >= 0 THEN (n + d \div 2) \div d ELSE 0 - ((0 - n + d \div 2) \div d)

---------------------------------------------------------------------------
(* Risk Engine (services/risk_engine.py)                                   *)

\* faulty variant: the valuation weight is 0.30, the weights sum to 1.1
WEIGHTS_overweight ==
    [volatility |-> 20, beta |-> 15, leverage |-> 20,
     earnings_stability |-> 15, sector |-> 10, valuation |-> 30]

WEIGHTS ==
    [volatility |-> 20, beta |-> 15, leverage |-> 20,
     earnings_stability |-> 15, sector |-> 10, valuation |-> 20]

CONSERVATIVE_THRESHOLD == 3333

MODERATE_THRESHOLD == 6667

SECTOR_RISK_MAP ==
    ("Technology" :> 6500) @@ ("Healthcare" :> 5500) @@ ("Financials" :> 6000) @@
    ("Energy" :> 7000) @@ ("Utilities" :> 3000) @@ ("Consumer Staples" :> 3500) @@
    ("Consumer Discretionary" :> 5500) @@ ("Industrials" :> 5000) @@
    ("Materials" :> 6000) @@ ("Real Estate" :> 5000) @@
    ("Communication Services" :> 5500)

\* faulty variant: the scale is inverted, calmer stocks score riskier
calculate_volatility_score_inverted(historical_volatility, volatility_percentile) ==
    LET vol_pct == historical_volatility * 100
        base_score == Min(10000 - vol_pct * 2, 10000)
        blended == IF volatility_percentile # None
                   THEN RoundDiv(base_score * 60 + volatility_percentile[1] * 40, 100)
                   ELSE base_score
    IN  Min(Max(blended, 0), 10000)

calculate_volatility_score(historical_volatility, volatility_percentile) ==
    LET vol_pct == historical_volatility * 100
        base_score == Min(vol_pct * 2, 10000)
        blended == IF volatility_percentile # None
                   THEN RoundDiv(base_score * 60 + volatility_percentile[1] * 40, 100)
                   ELSE base_score
    IN  Min(Max(blended, 0), 10000)

\* faulty variant: the negative branch is not floored at 0
calculate_beta_score_unfloored(beta) ==
    IF beta < 0
    THEN 5000 + beta * 25
    ELSE Min(Max(beta * 50, 0), 10000)

calculate_beta_score(beta) ==
    IF beta < 0
    THEN Max(0, 5000 + beta * 25)
    ELSE Min(Max(beta * 50, 0), 10000)

\* faulty variant: the penalties of the two middle coverage tiers are exchanged
calculate_leverage_score_swapped(debt_to_equity, interest_coverage) ==
    LET de_score == Min(RoundDiv(debt_to_equity * 100, 3), 10000)
        coverage_penalty ==
            IF interest_coverage[1] < 150 THEN 3000
            ELSE IF interest_coverage[1] < 300 THEN 500
            ELSE IF interest_coverage[1] < 500 THEN 1500
            ELSE 0
        adjusted == IF interest_coverage # None
                    THEN Min(de_score + coverage_penalty, 10000)
                    ELSE de_score
    IN  Min(Max(adjusted, 0), 10000)

calculate_leverage_score(debt_to_equity, interest_coverage) ==
    LET de_score == Min(RoundDiv(debt_to_equity * 100, 3), 10000)
        coverage_penalty ==
            IF interest_coverage[1] < 150 THEN 3000
            ELSE IF interest_coverage[1] < 300 THEN 1500
            ELSE IF interest_coverage[1] < 500 THEN 500
            ELSE 0
        adjusted == IF interest_coverage # None
                    THEN Min(de_score + coverage_penalty, 10000)
                    ELSE de_score
    IN  Min(Max(adjusted, 0), 10000)

\* faulty variant: the final clamp to [0, 100] is forgotten
calculate_earnings_stability_score_unclamped(earnings_volatility, consecutive_profitable_quarters) ==
    LET volatility_score == Min(earnings_volatility * 100, 10000)
        stability_bonus ==
            IF consecutive_profitable_quarters >= 12 THEN -3000
            ELSE IF consecutive_profitable_quarters >= 8 THEN -2000
            ELSE IF consecutive_profitable_quarters >= 4 THEN -1000
            ELSE 2000
    IN  volatility_score + stability_bonus

calculate_earnings_stability_score(earnings_volatility, consecutive_profitable_quarters) ==
    LET volatility_score == Min(earnings_volatility * 100, 10000)
        stability_bonus ==
            IF consecutive_profitable_quarters >= 12 THEN -3000
            ELSE IF consecutive_profitable_quarters >= 8 THEN -2000
            ELSE IF consecutive_profitable_quarters >= 4 THEN -1000
            ELSE 2000
        final_score == volatility_score + stability_bonus
    IN  Min(Max(final_score, 0), 10000)

calculate_sector_risk_score(sector) ==
    IF sector \in DOMAIN SECTOR_RISK_MAP THEN SECTOR_RISK_MAP[sector] ELSE 5000

\* sum(scores) of a list of numbers
RECURSIVE SumSeq(_)
SumSeq(s) == IF s = << >> THEN 0 ELSE s[1] + SumSeq(Tail(s))

\* faulty variant: the > 0 guards are missing, every supplied ratio is scored
calculate_valuation_risk_score_unguarded(pe_ratio, price_to_book, price_to_sales) ==
    LET pe == IF pe_ratio # None
              THEN <<Min(RoundDiv(pe_ratio[1] * 100, 50), 10000)>> ELSE << >>
        pb == IF price_to_book # None
              THEN <<Min(RoundDiv(price_to_book[1] * 100, 8), 10000)>> ELSE << >>
        ps == IF price_to_sales # None
              THEN <<Min(RoundDiv(price_to_sales[1] * 100, 8), 10000)>> ELSE << >>
        scores == pe \o pb \o ps
    IN  IF scores # << >> THEN RoundDiv(SumSeq(scores), Len(scores)) ELSE 5000

calculate_valuation_risk_score(pe_ratio, price_to_book, price_to_sales) ==
    LET pe == IF pe_ratio # None /\ pe_ratio[1] > 0
              THEN <<Min(RoundDiv(pe_ratio[1] * 100, 50), 10000)>> ELSE << >>
        pb == IF price_to_book # None /\ price_to_book[1] > 0
              THEN <<Min(RoundDiv(price_to_book[1] * 100, 8), 10000)>> ELSE << >>
        ps == IF price_to_sales # None /\ price_to_sales[1] > 0
              THEN <<Min(RoundDiv(price_to_sales[1] * 100, 8), 10000)>> ELSE << >>
        scores == pe \o pb \o ps
    IN  IF scores # << >> THEN RoundDiv(SumSeq(scores), Len(scores)) ELSE 5000

calculate_overall_risk(components) ==
    LET overall == RoundDiv(
            WEIGHTS.volatility * components.volatility_score
          + WEIGHTS.beta * components.beta_score
          + WEIGHTS.leverage * components.leverage_score
          + WEIGHTS.earnings_stability * components.earnings_stability_score
          + WEIGHTS.sector * components.sector_risk_score
          + WEIGHTS.valuation * components.valuation_risk_score, 100)
    IN  Min(Max(overall, 0), 10000)

classify_risk_level(risk_score) ==
    IF risk_score <= CONSERVATIVE_THRESHOLD THEN "Conservative"
    ELSE IF risk_score <= MODERATE_THRESHOLD THEN "Moderate"
    ELSE "Aggressive"

\* faulty variant: the band thresholds are exclusive (< instead of <=)
get_risk_band_strict(risk_score) ==
    IF risk_score < CONSERVATIVE_THRESHOLD THEN "0-33"
    ELSE IF risk_score < MODERATE_THRESHOLD THEN "34-66"
    ELSE "67-100"

get_risk_band(risk_score) ==
    IF risk_score <= CONSERVATIVE_THRESHOLD THEN "0-33"
    ELSE IF risk_score <= MODERATE_THRESHOLD THEN "34-66"
    ELSE "67-100"

\* faulty variant: reverse=True is forgotten, the sort is ascending
InsertAsc(perm, i, keys) ==
    LET k == Cardinality({j \in 1..Len(perm) : keys[perm[j]] <= keys[i]})
    IN  SubSeq(perm, 1, k) \o <<i>> \o SubSeq(perm, k + 1, Len(perm))

\* faulty variant: an unstable sort, equal keys come out in reverse input order
InsertDescUnstable(perm, i, keys) ==
    LET k == Cardinality({j \in 1..Len(perm) : keys[perm[j]] > keys[i]})
    IN  SubSeq(perm, 1, k) \o <<i>> \o SubSeq(perm, k + 1, Len(perm))

\* list.sort(key=..., reverse=True) and sorted(..., reverse=True): a stable
\* sort, descending by key; elements with equal keys keep their input order.
\* keys[i] is the key of the i-th element; the result lists the input
\* positions in output order.
InsertDesc(perm, i, keys) ==
    LET k == Cardinality({j \in 1..Len(perm) : keys[perm[j]] >= keys[i]})
    IN  SubSeq(perm, 1, k) \o <<i>> \o SubSeq(perm, k + 1, Len(perm))

RECURSIVE SortPermDesc(_, _)
SortPermDesc(keys, n) ==
    IF n = 0 THEN << >> ELSE InsertDesc(SortPermDesc(keys, n - 1), n, keys)

SortedDesc(items, keys) ==
    LET perm == SortPermDesc(keys, Len(items))
    IN  [i \in 1..Len(items) |-> items[perm[i]]]

\* the explanation is modelled by the values its template cites
RiskEngine_generate_explanation(ticker, risk_score, risk_level, components) ==
    LET component_scores ==
            << <<"Volatility", components.volatility_score>>,
               <<"Beta", components.beta_score>>,
               <<"Leverage", components.leverage_score>>,
               <<"Earnings Stability", components.earnings_stability_score>>,
               <<"Sector", components.sector_risk_score>>,
               <<"Valuation", components.valuation_risk_score>> >>
        sorted_components ==
            SortedDesc(component_scores,
                       [i \in 1..6 |-> component_scores[i][2]])
        top_risks == SubSeq(sorted_components, 1, 2)
    IN  [ticker |-> ticker, risk_score |-> risk_score, risk_level |-> risk_level,
         top_risks |-> top_risks]

analyze_stock_risk(a) ==
    LET components ==
            [volatility_score |->
                 calculate_volatility_score(a.historical_volatility,
                                            a.volatility_percentile),
             beta_score |-> calculate_beta_score(a.beta),
             leverage_score |->
                 calculate_leverage_score(a.debt_to_equity, a.interest_coverage),
             earnings_stability_score |->
                 calculate_earnings_stability_score(
                     a.earnings_volatility, a.consecutive_profitable_quarters),
             sector_risk_score |-> calculate_sector_risk_score(a.sector),
             valuation_risk_score |->
                 calculate_valuation_risk_score(a.pe_ratio, a.price_to_book,
                                                a.price_to_sales)]
        overall_risk == calculate_overall_risk(components)
        risk_level == classify_risk_level(overall_risk)
        risk_band == get_risk_band(overall_risk)
        explanation ==
            RiskEngine_generate_explanation(a.ticker, overall_risk, risk_level,
                                            components)
    IN  [ticker |-> a.ticker, overall_risk_score |-> overall_risk,
         risk_level |-> risk_level, components |-> components,
         risk_band |-> risk_band, explanation |-> explanation]

---------------------------------------------------------------------------
(* Signal Engine (services/signal_engine.py)                               *)

\* faulty variant: a surprise of exactly 5% is not signalled (<= instead of <)
detect_earnings_surprise_exclusive(ticker, actual_eps, estimated_eps) ==
    IF estimated_eps = 0 THEN None
    ELSE
      LET surprise_pct ==
              RoundDiv((actual_eps - estimated_eps) * 10000, Abs(estimated_eps))
      IN  IF Abs(surprise_pct) <= 500 THEN None
          ELSE Some([ticker |-> ticker, signal_type |-> "earnings_surprise",
                     strength |-> Min(Abs(surprise_pct) * 2, 10000),
                     confidence |-> 9500,
                     metadata |-> [actual_eps |-> actual_eps,
                                   estimated_eps |-> estimated_eps,
                                   surprise_pct |-> surprise_pct]])

\* a detector returns None or Some(signal); timestamps are left out
detect_earnings_surprise(ticker, actual_eps, estimated_eps) ==
    IF estimated_eps = 0 THEN None
    ELSE
      LET surprise_pct ==
              RoundDiv((actual_eps - estimated_eps) * 10000, Abs(estimated_eps))
          strength == Min(Abs(surprise_pct) * 2, 10000)
          confidence == 9500
      IN  IF Abs(surprise_pct) < 500 THEN None
          ELSE Some([ticker |-> ticker, signal_type |-> "earnings_surprise",
                     strength |-> strength, confidence |-> confidence,
                     metadata |-> [actual_eps |-> actual_eps,
                                   estimated_eps |-> estimated_eps,
                                   surprise_pct |-> surprise_pct]])

\* faulty variant: two institutions are enough (< 2 instead of < 3)
detect_institutional_buying_two(ticker, institutional_ownership_change, num_institutions_buying) ==
    IF institutional_ownership_change < 200 \/ num_institutions_buying < 2
    THEN None
    ELSE
      LET ownership_component == Min(institutional_ownership_change * 10, 5000)
          institution_component == Min(num_institutions_buying * 500, 5000)
          strength == ownership_component + institution_component
          confidence == Min(6000 + num_institutions_buying * 500, 9500)
      IN  Some([ticker |-> ticker, signal_type |-> "institutional_buying",
                strength |-> strength, confidence |-> confidence,
                metadata |-> [ownership_change_pct |-> institutional_ownership_change,
                              num_institutions |-> num_institutions_buying]])

detect_institutional_buying(ticker, institutional_ownership_change, num_institutions_buying) ==
    IF institutional_ownership_change < 200 \/ num_institutions_buying < 3
    THEN None
    ELSE
      LET ownership_component == Min(institutional_ownership_change * 10, 5000)
          institution_component == Min(num_institutions_buying * 500, 5000)
          strength == ownership_component + institution_component
          confidence == Min(6000 + num_institutions_buying * 500, 9500)
      IN  Some([ticker |-> ticker, signal_type |-> "institutional_buying",
                strength |-> strength, confidence |-> confidence,
                metadata |-> [ownership_change_pct |-> institutional_ownership_change,
                              num_institutions |-> num_institutions_buying]])

\* faulty variant: no sentinel, the ratio is 0 when nothing was sold
detect_insider_buying_nosentinel(ticker, insider_buy_volume, insider_sell_volume, num_insiders_buying) ==
    LET net_buying == insider_buy_volume - insider_sell_volume
        buy_sell_ratio ==
            IF insider_sell_volume > 0
            THEN RoundDiv(insider_buy_volume * 100, insider_sell_volume)
            ELSE 0
        ratio_component == Min(buy_sell_ratio * 20, 6000)
        insider_component == Min(num_insiders_buying * 1000, 4000)
        strength == ratio_component + insider_component
        confidence == 7500
    IN  IF net_buying <= 0 \/ num_insiders_buying < 2 THEN None
        ELSE Some([ticker |-> ticker, signal_type |-> "insider_buying",
                   strength |-> strength, confidence |-> confidence,
                   metadata |-> [buy_volume |-> insider_buy_volume,
                                 sell_volume |-> insider_sell_volume,
                                 net_buying |-> net_buying,
                                 num_insiders |-> num_insiders_buying,
                                 buy_sell_ratio |-> buy_sell_ratio]])

detect_insider_buying(ticker, insider_buy_volume, insider_sell_volume, num_insiders_buying) ==
    LET net_buying == insider_buy_volume - insider_sell_volume
        buy_sell_ratio ==
            IF insider_sell_volume > 0
            THEN RoundDiv(insider_buy_volume * 100, insider_sell_volume)
            ELSE 1000
        ratio_component == Min(buy_sell_ratio * 20, 6000)
        insider_component == Min(num_insiders_buying * 1000, 4000)
        strength == ratio_component + insider_component
        confidence == 7500
    IN  IF net_buying <= 0 \/ num_insiders_buying < 2 THEN None
        ELSE Some([ticker |-> ticker, signal_type |-> "insider_buying",
                   strength |-> strength, confidence |-> confidence,
                   metadata |-> [buy_volume |-> insider_buy_volume,
                                 sell_volume |-> insider_sell_volume,
                                 net_buying |-> net_buying,
                                 num_insiders |-> num_insiders_buying,
                                 buy_sell_ratio |-> buy_sell_ratio]])

\* faulty variant: the volume component is not capped at 30
detect_sentiment_spike_uncapped(ticker, current_sentiment, baseline_sentiment, mention_volume) ==
    LET sentiment_change == current_sentiment - baseline_sentiment
        sentiment_component == Min(Abs(sentiment_change) * 100, 7000)
        strength == sentiment_component + mention_volume
    IN  IF Abs(sentiment_change) < 20 \/ mention_volume < 100 THEN None
        ELSE Some([ticker |-> ticker, signal_type |-> "sentiment_spike",
                   strength |-> strength, confidence |-> 6000,
                   metadata |-> [current_sentiment |-> current_sentiment,
                                 baseline_sentiment |-> baseline_sentiment,
                                 sentiment_change |-> sentiment_change,
                                 mention_volume |-> mention_volume]])

\* faulty variant: the sentiment component takes the signed change
detect_sentiment_spike_signed(ticker, current_sentiment, baseline_sentiment, mention_volume) ==
    LET sentiment_change == current_sentiment - baseline_sentiment
        sentiment_component == Min(sentiment_change * 100, 7000)
        volume_component == Min(mention_volume, 3000)
        strength == sentiment_component + volume_component
        confidence == 6000
    IN  IF Abs(sentiment_change) < 20 \/ mention_volume < 100 THEN None
        ELSE Some([ticker |-> ticker, signal_type |-> "sentiment_spike",
                   strength |-> strength, confidence |-> confidence,
                   metadata |-> [current_sentiment |-> current_sentiment,
                                 baseline_sentiment |-> baseline_sentiment,
                                 sentiment_change |-> sentiment_change,
                                 mention_volume |-> mention_volume]])

\* mention_volume is a whole number, so mention_volume / 100 is the integer
\* mention_volume in hundredths
detect_sentiment_spike(ticker, current_sentiment, baseline_sentiment, mention_volume) ==
    LET sentiment_change == current_sentiment - baseline_sentiment
        sentiment_component == Min(Abs(sentiment_change) * 100, 7000)
        volume_component == Min(mention_volume, 3000)
        strength == sentiment_component + volume_component
        confidence == 6000
    IN  IF Abs(sentiment_change) < 20 \/ mention_volume < 100 THEN None
        ELSE Some([ticker |-> ticker, signal_type |-> "sentiment_spike",
                   strength |-> strength, confidence |-> confidence,
                   metadata |-> [current_sentiment |-> current_sentiment,
                                 baseline_sentiment |-> baseline_sentiment,
                                 sentiment_change |-> sentiment_change,
                                 mention_volume |-> mention_volume]])

\* sum(s.strength * (s.confidence / 100) for s in signals), as the exact
\* integer sum of strength * confidence over the represented values
RECURSIVE WeightedSum(_)
WeightedSum(signals) ==
    IF signals = << >> THEN 0
    ELSE signals[1].strength * signals[1].confidence + WeightedSum(Tail(signals))

\* sum(s.confidence / 100 for s in signals), as the exact integer sum of the
\* represented confidences; the quotient WeightedSum / WeightTotal is then the
\* represented value of weighted_sum / weight_total
RECURSIVE WeightTotal(_)
WeightTotal(signals) ==
    IF signals = << >> THEN 0
    ELSE signals[1].confidence + WeightTotal(Tail(signals))

\* faulty variant: the plain mean of the strengths, confidence ignored
aggregate_signals_unweighted(signals, ticker) ==
    IF signals = << >> THEN 5000
    ELSE Min(Max(RoundDiv(SumSeq([i \in 1..Len(signals) |-> signals[i].strength]),
                          Len(signals)), 0), 10000)

aggregate_signals(signals, ticker) ==
    IF signals = << >> THEN 5000
    ELSE IF WeightTotal(signals) = 0 THEN 5000
    ELSE LET aggregated ==
                 IF WeightTotal(signals) > 0
                 THEN RoundDiv(WeightedSum(signals), WeightTotal(signals))
                 ELSE 0 - RoundDiv(WeightedSum(signals), 0 - WeightTotal(signals))
         IN  Min(Max(aggregated, 0), 10000)

---------------------------------------------------------------------------
(* Recommendation Engine (services/recommendation_engine.py)               *)

RecWEIGHTS ==
    [research |-> 40, signal |-> 30, risk_alignment |-> 20, macro_fit |-> 10]

risk_bands ==
    ("Conservative" :> <<0, 3300>>) @@ ("Moderate" :> <<3400, 6600>>) @@
    ("Aggressive" :> <<6700, 10000>>)

\* faulty variant: an unrecognized level falls back to the Moderate band
risk_bands_get_moderate(user_risk_level) ==
    IF user_risk_level \in DOMAIN risk_bands
    THEN risk_bands[user_risk_level] ELSE <<3400, 6600>>

\* risk_bands.get(user_risk_level, (0, 100))
risk_bands_get(user_risk_level) ==
    IF user_risk_level \in DOMAIN risk_bands
    THEN risk_bands[user_risk_level] ELSE <<0, 10000>>

\* faulty variant: the distance from the band is not doubled
calculate_risk_alignment_score_single(stock_risk_score, user_risk_level, user_volatility_tolerance) ==
    LET min_risk == risk_bands_get(user_risk_level)[1]
        max_risk == risk_bands_get(user_risk_level)[2]
        distance == IF stock_risk_score < min_risk
                    THEN min_risk - stock_risk_score
                    ELSE stock_risk_score - max_risk
        base_score ==
            IF min_risk <= stock_risk_score /\ stock_risk_score <= max_risk
            THEN 10000
            ELSE Max(0, 10000 - distance)
        adjusted_score ==
            RoundDiv(base_score * (70000 + 3 * user_volatility_tolerance), 100000)
    IN  Min(Max(adjusted_score, 0), 10000)

calculate_risk_alignment_score(stock_risk_score, user_risk_level, user_volatility_tolerance) ==
    LET min_risk == risk_bands_get(user_risk_level)[1]
        max_risk == risk_bands_get(user_risk_level)[2]
        distance == IF stock_risk_score < min_risk
                    THEN min_risk - stock_risk_score
                    ELSE stock_risk_score - max_risk
        base_score ==
            IF min_risk <= stock_risk_score /\ stock_risk_score <= max_risk
            THEN 10000
            ELSE Max(0, 10000 - distance * 2)
        \* base_score * (0.7 + (user_volatility_tolerance / 100) * 0.3)
        adjusted_score ==
            RoundDiv(base_score * (70000 + 3 * user_volatility_tolerance), 100000)
    IN  Min(Max(adjusted_score, 0), 10000)

sector_scores ==
    [bull |->
        ("Technology" :> 8000) @@ ("Consumer Discretionary" :> 7500) @@
        ("Financials" :> 7000) @@ ("Industrials" :> 6500) @@ ("Energy" :> 6000) @@
        ("Materials" :> 6000) @@ ("Healthcare" :> 5500) @@
        ("Consumer Staples" :> 5000) @@ ("Utilities" :> 4500) @@
        ("Real Estate" :> 5000),
     bear |->
        ("Utilities" :> 8000) @@ ("Consumer Staples" :> 7500) @@
        ("Healthcare" :> 7000) @@ ("Real Estate" :> 6000) @@
        ("Financials" :> 5000) @@ ("Industrials" :> 4500) @@
        ("Materials" :> 4500) @@ ("Energy" :> 5000) @@ ("Technology" :> 4000) @@
        ("Consumer Discretionary" :> 3500),
     neutral |->
        [sector \in {"Technology", "Healthcare", "Financials", "Energy",
                     "Utilities", "Consumer Staples", "Consumer Discretionary",
                     "Industrials", "Materials", "Real Estate"} |-> 5000]]

\* faulty variant: the neutral regime is scored with the bull table
calculate_macro_fit_score_bull(sector, current_market_regime) ==
    LET regime_scores ==
            IF current_market_regime \in DOMAIN sector_scores
               /\ current_market_regime # "neutral"
            THEN sector_scores[current_market_regime]
            ELSE sector_scores["bull"]
    IN  IF sector \in DOMAIN regime_scores THEN regime_scores[sector] ELSE 5000

calculate_macro_fit_score(sector, current_market_regime) ==
    LET regime_scores ==
            IF current_market_regime \in DOMAIN sector_scores
            THEN sector_scores[current_market_regime]
            ELSE sector_scores["neutral"]
    IN  IF sector \in DOMAIN regime_scores THEN regime_scores[sector] ELSE 5000

\* faulty variant: the research and signal weights are exchanged
calculate_final_score_swapped(research_score, signal_score, risk_alignment_score, macro_fit_score) ==
    LET final == RoundDiv(
            RecWEIGHTS.signal * research_score
          + RecWEIGHTS.research * signal_score
          + RecWEIGHTS.risk_alignment * risk_alignment_score
          + RecWEIGHTS.macro_fit * macro_fit_score, 100)
    IN  Min(Max(final, 0), 10000)

calculate_final_score(research_score, signal_score, risk_alignment_score, macro_fit_score) ==
    LET final == RoundDiv(
            RecWEIGHTS.research * research_score
          + RecWEIGHTS.signal * signal_score
          + RecWEIGHTS.risk_alignment * risk_alignment_score
          + RecWEIGHTS.macro_fit * macro_fit_score, 100)
    IN  Min(Max(final, 0), 10000)

\* the explanation is modelled by the values its template cites
generate_explanation(ticker, scores, sector, user_risk_level) ==
    [ticker |-> ticker, final_score |-> scores.final_score,
     research_score |-> scores.research_score,
     signal_score |-> scores.signal_score,
     user_risk_level |-> user_risk_level,
     risk_alignment_score |-> scores.risk_alignment_score,
     sector |-> sector, macro_fit_score |-> scores.macro_fit_score]

\* faulty variant: the upper edge of the band is excluded
filter_by_risk_band_exclusive(stocks, user_risk_level) ==
    LET min_risk == risk_bands_get(user_risk_level)[1]
        max_risk == risk_bands_get(user_risk_level)[2]
        keep(stock) == /\ min_risk <= Get(stock.risk_score, 5000)
                       /\ Get(stock.risk_score, 5000) < max_risk
    IN  SelectSeq(stocks, keep)

\* [stock for stock in stocks if min_risk <= stock.get("risk_score", 50) <= max_risk]
filter_by_risk_band(stocks, user_risk_level) ==
    LET min_risk == risk_bands_get(user_risk_level)[1]
        max_risk == risk_bands_get(user_risk_level)[2]
        keep(stock) == /\ min_risk <= Get(stock.risk_score, 5000)
                       /\ Get(stock.risk_score, 5000) <= max_risk
    IN  SelectSeq(stocks, keep)

\* the list slice s[:n], for any integer n
SliceTo(s, n) ==
    IF n >= 0 THEN SubSeq(s, 1, Min(n, Len(s)))
    ELSE SubSeq(s, 1, Max(Len(s) + n, 0))

\* faulty variant: enumerate without its start argument, ranks from 0
AssignRanksFromZero(head) == [i \in 1..Len(head) |-> [head[i] EXCEPT !.rank = i - 1]]

\* for i, rec in enumerate(recommendations[:top_n], 1): rec.rank = i
AssignRanks(head) == [i \in 1..Len(head) |-> [head[i] EXCEPT !.rank = i]]

\* the body of the loop over stocks: the recommendation built for one stock
MakeRecommendation(stock, user_risk_level, user_volatility_tolerance) ==
    LET risk_alignment ==
            calculate_risk_alignment_score(Get(stock.risk_score, 5000),
                                           user_risk_level,
                                           user_volatility_tolerance)
        macro_fit ==
            calculate_macro_fit_score(Get(stock.sector, "Unknown"), "neutral")
        final_score ==
            calculate_final_score(Get(stock.research_score, 5000),
                                  Get(stock.signal_score, 5000),
                                  risk_alignment, macro_fit)
        scores == [research_score |-> Get(stock.research_score, 5000),
                   signal_score |-> Get(stock.signal_score, 5000),
                   risk_alignment_score |-> risk_alignment,
                   macro_fit_score |-> macro_fit,
                   final_score |-> final_score]
        explanation ==
            generate_explanation(stock.ticker, scores,
                                 Get(stock.sector, "Unknown"), user_risk_level)
    IN  [ticker |-> stock.ticker, scores |-> scores,
         explanation |-> explanation,
         reasoning_metadata |->
             [research_score |-> scores.research_score,
              signal_score |-> scores.signal_score,
              risk_alignment_score |-> scores.risk_alignment_score,
              macro_fit_score |-> scores.macro_fit_score,
              user_risk_level |-> user_risk_level,
              stock_sector |-> stock.sector],
         rank |-> 0]

rank_recommendations(stocks, user_risk_level, user_volatility_tolerance, top_n) ==
    LET recommendations ==
            [i \in 1..Len(stocks) |->
                MakeRecommendation(stocks[i], user_risk_level,
                                   user_volatility_tolerance)]
        sorted ==
            SortedDesc(recommendations,
                       [i \in 1..Len(stocks) |->
                           recommendations[i].scores.final_score])
    IN  AssignRanks(SliceTo(sorted, top_n))

\* the recommendations endpoint: the candidates are filtered by the user's
\* band, then ranked, with the limit query parameter as top_n
get_recommendations(stocks, user_risk_level, user_volatility_tolerance, limit) ==
    LET filtered_stocks == filter_by_risk_band(stocks, user_risk_level)
    IN  rank_recommendations(filtered_stocks, user_risk_level,
                             user_volatility_tolerance, limit)

---------------------------------------------------------------------------
(* Inputs.  The engines are stateless service objects; a caller invokes    *)
(* one operation with arguments of its choice and receives the result.     *)

MaxStocks == 3

MaxSignals == 3

MaxTopN == 3

MaxNegTopN == 1

Opt(S) == {None} \cup {Some(x) : x \in S}

\* the lists of at most n distinct elements of S
ListsOfDistinct(S, n) ==
    UNION {{l \in [1..k -> S] : \A i, j \in 1..k : l[i] = l[j] => i = j} : k \in 0..n}

\* the lists of at most n elements of S
ListsOf(S, n) == UNION {[1..k -> S] : k \in 0..n}

Sectors ==
    {"Technology", "Healthcare", "Financials", "Energy", "Utilities",
     "Consumer Staples", "Consumer Discretionary", "Industrials", "Materials",
     "Real Estate", "Communication Services", "Unknown"}

RiskLevels == {"Conservative", "Moderate", "Aggressive", "Speculative"}

Regimes == {"bull", "bear", "neutral", "sideways"}

\* the call of tests/test_risk_engine.py and api/v1/risk.py
AAPLScenario ==
    [ticker |-> "AAPL", historical_volatility |-> 25, beta |-> 120,
     debt_to_equity |-> 50, earnings_volatility |-> 15,
     consecutive_profitable_quarters |-> 8, sector |-> "Technology",
     volatility_percentile |-> None, interest_coverage |-> None,
     pe_ratio |-> Some(2500), price_to_book |-> Some(350),
     price_to_sales |-> None]

Valuations ==
    {<<None, None, None>>, <<Some(2500), Some(350), None>>,
     <<Some(-500), None, Some(10000)>>, <<Some(0), Some(0), Some(0)>>}

AnalyzeInputs ==
    {AAPLScenario} \cup
    {[ticker |-> "TST", historical_volatility |-> hv, beta |-> b,
      debt_to_equity |-> de, earnings_volatility |-> ev,
      consecutive_profitable_quarters |-> q, sector |-> sec,
      volatility_percentile |-> vp, interest_coverage |-> ic,
      pe_ratio |-> v[1], price_to_book |-> v[2], price_to_sales |-> v[3]] :
        hv \in {-10, 25, 20000}, b \in {-300, 100, 250},
        de \in {-100, 150, 900}, ev \in {30, 150}, q \in {0, 12},
        sec \in {"Technology", "Unknown"}, vp \in Opt({8000}),
        ic \in Opt({100}), v \in Valuations}

Stock(t, sec, risk, res, sig) ==
    [ticker |-> t, sector |-> sec, risk_score |-> risk,
     research_score |-> res, signal_score |-> sig]

\* candidates for ranking; the first three are scored 90, 70 and 95 for a
\* Moderate user with tolerance 100, the fourth ties with the first
RankStocks ==
    {Stock("AAPL", Some("Technology"), Some(5500), Some(9500), Some(9000)),
     Stock("MSFT", Some("Technology"), Some(5000), Some(6000), Some(7000)),
     Stock("JNJ", Some("Healthcare"), Some(3500), Some(10000), Some(10000)),
     Stock("NVDA", Some("Technology"), Some(6000), Some(9500), Some(9000)),
     Stock("XOM", None, Some(8000), None, None)}

FilterStocks ==
    {Stock("R0", None, Some(0), None, None),
     Stock("R33", None, Some(3300), None, None),
     Stock("R332", None, Some(3320), None, None),
     Stock("R335", None, Some(3350), None, None),
     Stock("R34", None, Some(3400), None, None),
     Stock("R66", None, Some(6600), None, None),
     Stock("R665", None, Some(6650), None, None),
     Stock("R67", None, Some(6700), None, None),
     Stock("R100", None, Some(10000), None, None),
     Stock("RNONE", None, None, None, None)}

SignalPool ==
    {[ticker |-> "AAPL", signal_type |-> "earnings_surprise",
      strength |-> st, confidence |-> c, metadata |-> << >>] :
        st \in {0, 3000, 12000}, c \in {0, 7500, 9500}}

---------------------------------------------------------------------------
(* Shared engine instances.  The API modules construct each engine once at *)
(* import time and every request calls that one instance; the engines'     *)
(* only attributes are the class-level tables below.  engine holds them,   *)
(* heap holds the lists that calls receive by reference or allocate, and   *)
(* threads holds the frame of each caller.                                 *)

MaxThreads == 2

Threads == 1..MaxThreads

\* the class attributes of RiskEngine and of RecommendationEngine
EngineConfig ==
    [risk |-> [WEIGHTS |-> WEIGHTS,
               CONSERVATIVE_THRESHOLD |-> CONSERVATIVE_THRESHOLD,
               MODERATE_THRESHOLD |-> MODERATE_THRESHOLD,
               SECTOR_RISK_MAP |-> SECTOR_RISK_MAP],
     recommendation |-> [WEIGHTS |-> RecWEIGHTS]]

\* a caller that is not inside a call; interleaved records whether another
\* caller took a step while this frame's call was running
IdleFrame ==
    [pc |-> "idle", op |-> "none", args |-> << >>, loc |-> << >>,
     result |-> << >>, interleaved |-> FALSE]

\* no call of YahooFinanceProvider.get_historical_data in progress
YahooIdle ==
    [pc |-> "idle", max_retries |-> 0, backoff_factor |-> 0, retries |-> 0,
     outcomes |-> << >>, waits |-> << >>, result |-> "none"]

\* no run of the analysis workflow in progress
\* analyze_stock's initial_state
initial_state(ticker) ==
    [ticker |-> ticker, raw_data |-> "{}", computed_metrics |-> "{}",
     risk_classification |-> "{}", structured_analysis |-> << >>,
     validation_errors |-> << >>, retry_count |-> 0, final_output |-> << >>]

\* no analyze_stock call in progress.  generated counts the executions of
\* generate_analysis in the call, response is what the LLM did in the latest
\* one, validated is the argument of the latest schema validation, stored
\* tells whether store_result ran, raised whether a node raised.
LLMIdle ==
    [node |-> "idle", state |-> initial_state("none"), generated |-> 0,
     response |-> [kind |-> "none"], validated |-> << >>, stored |-> FALSE,
     raised |-> FALSE, ret |-> << >>]

---------------------------------------------------------------------------
(* The state machine: pc = "idle" between calls; a call sets op, args and  *)
(* result and pc = "done"; Return hands the result over and forgets it.    *)

Init ==
    /\ pc = "idle"
    /\ op = "none"
    /\ args = << >>
    /\ result = << >>
    /\ engine = EngineConfig
    /\ heap = [stocks |-> << >>, signals |-> << >>,
               recommendations |-> [t \in Threads |-> << >>]]
    /\ threads = [t \in Threads |-> IdleFrame]
    /\ yahoo = YahooIdle
    /\ llm = LLMIdle

Call(name, a, r) ==
    /\ pc' = "done"
    /\ op' = name
    /\ args' = a
    /\ result' = r
    /\ UNCHANGED <<engine, heap, threads, yahoo, llm>>

Return ==
    /\ pc = "done"
    /\ pc' = "idle"
    /\ op' = "none"
    /\ args' = << >>
    /\ result' = << >>
    /\ UNCHANGED <<engine, heap, threads, yahoo, llm>>

CallAnalyzeStockRisk ==
    /\ pc = "idle"
    /\ \E a \in AnalyzeInputs : Call("analyze_stock_risk", a, analyze_stock_risk(a))

ExplainScores == {2000, 5000, 8000}

CallGenerateExplanation ==
    /\ pc = "idle"
    /\ \E v \in ExplainScores, b \in ExplainScores, l \in ExplainScores,
          e \in ExplainScores, sec \in ExplainScores, val \in ExplainScores :
           LET components ==
                   [volatility_score |-> v, beta_score |-> b,
                    leverage_score |-> l, earnings_stability_score |-> e,
                    sector_risk_score |-> sec, valuation_risk_score |-> val]
               risk_score == calculate_overall_risk(components)
               risk_level == classify_risk_level(risk_score)
           IN  Call("RiskEngine.generate_explanation",
                    [ticker |-> "TST", risk_score |-> risk_score,
                     risk_level |-> risk_level, components |-> components],
                    RiskEngine_generate_explanation("TST", risk_score,
                                                    risk_level, components))

CallVolatilityScore ==
    /\ pc = "idle"
    /\ \E hv \in {-10, 0, 10, 25, 50, 75, 20000},
          vp \in Opt({-5000, 0, 8000, 10000, 25000}) :
           Call("calculate_volatility_score",
                [historical_volatility |-> hv, volatility_percentile |-> vp],
                calculate_volatility_score(hv, vp))

CallBetaScore ==
    /\ pc = "idle"
    /\ \E b \in {-500, -300, -200, -100, -1, 0, 50, 100, 120, 150, 200, 250, 100000} :
           Call("calculate_beta_score", [beta |-> b], calculate_beta_score(b))

CallLeverageScore ==
    /\ pc = "idle"
    /\ \E de \in {-100, 0, 50, 100, 150, 300, 900},
          ic \in Opt({-100, 0, 100, 149, 150, 200, 300, 400, 500, 1000}) :
           Call("calculate_leverage_score",
                [debt_to_equity |-> de, interest_coverage |-> ic],
                calculate_leverage_score(de, ic))

CallEarningsStabilityScore ==
    /\ pc = "idle"
    /\ \E ev \in {-50, 0, 15, 30, 70, 150},
          q \in {-1, 0, 3, 4, 7, 8, 11, 12, 13, 40} :
           Call("calculate_earnings_stability_score",
                [earnings_volatility |-> ev, consecutive_profitable_quarters |-> q],
                calculate_earnings_stability_score(ev, q))

CallSectorRiskScore ==
    /\ pc = "idle"
    /\ \E sec \in Sectors :
           Call("calculate_sector_risk_score", [sector |-> sec],
                calculate_sector_risk_score(sec))

CallValuationRiskScore ==
    /\ pc = "idle"
    /\ \E pe \in Opt({-500, 0, 750, 2500, 10000}),
          pb \in Opt({-500, 0, 350, 10000}),
          ps \in Opt({-500, 0, 200, 10000}) :
           Call("calculate_valuation_risk_score",
                [pe_ratio |-> pe, price_to_book |-> pb, price_to_sales |-> ps],
                calculate_valuation_risk_score(pe, pb, ps))

RiskScores ==
    {-100, 0, 2000, 3300, 3320, 3333, 3334, 3350, 3400, 5000, 6600, 6650,
     6666, 6667, 6668, 6700, 8000, 10000, 10100}

CallClassifyRiskLevel ==
    /\ pc = "idle"
    /\ \E sc \in RiskScores :
           Call("classify_risk_level", [risk_score |-> sc], classify_risk_level(sc))

CallGetRiskBand ==
    /\ pc = "idle"
    /\ \E sc \in RiskScores :
           Call("get_risk_band", [risk_score |-> sc], get_risk_band(sc))

CallDetectEarningsSurprise ==
    /\ pc = "idle"
    /\ \E a \in {-115, 0, 85, 95, 96, 100, 104, 105, 115, 149, 150, 200, 210},
          e \in {-100, 0, 100, 200} :
           Call("detect_earnings_surprise",
                [actual_eps |-> a, estimated_eps |-> e],
                detect_earnings_surprise("AAPL", a, e))

CallDetectInstitutionalBuying ==
    /\ pc = "idle"
    /\ \E ch \in {-100, 0, 199, 200, 350, 500, 1000},
          n \in {0, 2, 3, 5, 7, 10, 20} :
           Call("detect_institutional_buying",
                [institutional_ownership_change |-> ch, num_institutions_buying |-> n],
                detect_institutional_buying("AAPL", ch, n))

CallDetectInsiderBuying ==
    /\ pc = "idle"
    /\ \E buy \in {0, 100, 200, 300, 1000}, sell \in {-100, 0, 100, 200, 1000},
          n \in {0, 1, 2, 3, 4, 10} :
           Call("detect_insider_buying",
                [insider_buy_volume |-> buy, insider_sell_volume |-> sell,
                 num_insiders_buying |-> n],
                detect_insider_buying("AAPL", buy, sell, n))

CallDetectSentimentSpike ==
    /\ pc = "idle"
    /\ \E cur \in {-100, -50, 0, 19, 50, 100}, base \in {-30, 0, 30},
          vol \in {0, 99, 100, 1000, 3000, 100000} :
           Call("detect_sentiment_spike",
                [current_sentiment |-> cur, baseline_sentiment |-> base,
                 mention_volume |-> vol],
                detect_sentiment_spike("AAPL", cur, base, vol))

CallAggregateSignals ==
    /\ pc = "idle"
    /\ \E sigs \in ListsOf(SignalPool, MaxSignals) :
           Call("aggregate_signals", [signals |-> sigs],
                aggregate_signals(sigs, "AAPL"))

CallRiskAlignmentScore ==
    /\ pc = "idle"
    /\ \E sc \in {0, 900, 3300, 3350, 3400, 5000, 6600, 6700, 8300, 8400, 10000},
          lvl \in RiskLevels, tol \in {0, 5000, 6000, 10000} :
           Call("calculate_risk_alignment_score",
                [stock_risk_score |-> sc, user_risk_level |-> lvl,
                 user_volatility_tolerance |-> tol],
                calculate_risk_alignment_score(sc, lvl, tol))

CallMacroFitScore ==
    /\ pc = "idle"
    /\ \E sec \in Sectors, regime \in Regimes :
           Call("calculate_macro_fit_score",
                [sector |-> sec, current_market_regime |-> regime],
                calculate_macro_fit_score(sec, regime))

CallFinalScore ==
    /\ pc = "idle"
    /\ \E r \in {0, 5000, 9500, 10000}, sg \in {0, 5000, 9000, 10000},
          ra \in {0, 7000, 10000}, mf \in {3500, 5000, 8000} :
           Call("calculate_final_score",
                [research_score |-> r, signal_score |-> sg,
                 risk_alignment_score |-> ra, macro_fit_score |-> mf],
                calculate_final_score(r, sg, ra, mf))

CallFilterByRiskBand ==
    /\ pc = "idle"
    /\ \E stocks \in ListsOfDistinct(FilterStocks, MaxStocks), lvl \in RiskLevels :
           Call("filter_by_risk_band",
                [stocks |-> stocks, user_risk_level |-> lvl],
                filter_by_risk_band(stocks, lvl))

\* the candidates of the endpoint: those of RankStocks and a low-risk one
PipelineStocks ==
    RankStocks \cup
    {Stock("KO", Some("Consumer Staples"), Some(2000), Some(7000), Some(0))}

CallGetRecommendations ==
    /\ pc = "idle"
    /\ \E stocks \in ListsOfDistinct(PipelineStocks, MaxStocks), lvl \in RiskLevels,
          tol \in {0, 6000, 10000}, limit \in (0 - MaxNegTopN)..MaxTopN :
           Call("get_recommendations",
                [stocks |-> stocks, user_risk_level |-> lvl,
                 user_volatility_tolerance |-> tol, limit |-> limit],
                get_recommendations(stocks, lvl, tol, limit))

CallRankRecommendations ==
    /\ pc = "idle"
    /\ \E stocks \in ListsOfDistinct(RankStocks, MaxStocks), lvl \in RiskLevels,
          tol \in {0, 6000, 10000}, top_n \in (0 - MaxNegTopN)..MaxTopN :
           Call("rank_recommendations",
                [stocks |-> stocks, user_risk_level |-> lvl,
                 user_volatility_tolerance |-> tol, top_n |-> top_n],
                rank_recommendations(stocks, lvl, tol, top_n))

Next ==
    \/ CallAnalyzeStockRisk
    \/ CallGenerateExplanation
    \/ CallVolatilityScore
    \/ CallBetaScore
    \/ CallLeverageScore
    \/ CallEarningsStabilityScore
    \/ CallSectorRiskScore
    \/ CallValuationRiskScore
    \/ CallClassifyRiskLevel
    \/ CallGetRiskBand
    \/ CallDetectEarningsSurprise
    \/ CallDetectInstitutionalBuying
    \/ CallDetectInsiderBuying
    \/ CallDetectSentimentSpike
    \/ CallAggregateSignals
    \/ CallRiskAlignmentScore
    \/ CallMacroFitScore
    \/ CallFinalScore
    \/ CallFilterByRiskBand
    \/ CallRankRecommendations
    \/ CallGetRecommendations
    \/ Return

Spec == Init /\ [][Next]_vars

---------------------------------------------------------------------------
(* Concurrent callers of the shared instances: each call is a sequence of  *)
(* steps, one per read of the instance or of a list, and the steps of      *)
(* different callers interleave freely.                                    *)

\* the methods that read an attribute of self, reading it from the instance
self_calculate_sector_risk_score(self, sector) ==
    IF sector \in DOMAIN self.SECTOR_RISK_MAP
    THEN self.SECTOR_RISK_MAP[sector] ELSE 5000

self_calculate_overall_risk(self, components) ==
    LET overall == RoundDiv(
            self.WEIGHTS.volatility * components.volatility_score
          + self.WEIGHTS.beta * components.beta_score
          + self.WEIGHTS.leverage * components.leverage_score
          + self.WEIGHTS.earnings_stability * components.earnings_stability_score
          + self.WEIGHTS.sector * components.sector_risk_score
          + self.WEIGHTS.valuation * components.valuation_risk_score, 100)
    IN  Min(Max(overall, 0), 10000)

self_classify_risk_level(self, risk_score) ==
    IF risk_score <= self.CONSERVATIVE_THRESHOLD THEN "Conservative"
    ELSE IF risk_score <= self.MODERATE_THRESHOLD THEN "Moderate"
    ELSE "Aggressive"

self_get_risk_band(self, risk_score) ==
    IF risk_score <= self.CONSERVATIVE_THRESHOLD THEN "0-33"
    ELSE IF risk_score <= self.MODERATE_THRESHOLD THEN "34-66"
    ELSE "67-100"

self_calculate_final_score(self, research_score, signal_score, risk_alignment_score, macro_fit_score) ==
    LET final == RoundDiv(
            self.WEIGHTS.research * research_score
          + self.WEIGHTS.signal * signal_score
          + self.WEIGHTS.risk_alignment * risk_alignment_score
          + self.WEIGHTS.macro_fit * macro_fit_score, 100)
    IN  Min(Max(final, 0), 10000)

\* the list of candidates every request of the recommendations API passes
mock_stocks ==
    <<Stock("AAPL", Some("Technology"), Some(5500), Some(8500), Some(7500)),
      Stock("MSFT", Some("Technology"), Some(5000), Some(9000), Some(8000)),
      Stock("JNJ", Some("Healthcare"), Some(3500), Some(8000), Some(6500))>>

\* the signal lists callers aggregate: none, or an earnings surprise and an
\* insider purchase as the detectors emit them
ConcSignalLists ==
    {<< >>,
     <<detect_earnings_surprise("AAPL", 115, 100)[1],
       detect_insider_buying("AAPL", 300, 0, 3)[1]>>}

\* the detector calls concurrent callers make
ConcDetectorCalls ==
    {<<"detect_earnings_surprise", [actual_eps |-> 115, estimated_eps |-> 100]>>,
     <<"detect_institutional_buying",
       [institutional_ownership_change |-> 350, num_institutions_buying |-> 5]>>,
     <<"detect_insider_buying",
       [insider_buy_volume |-> 300, insider_sell_volume |-> 100,
        num_insiders_buying |-> 1]>>,
     <<"detect_sentiment_spike",
       [current_sentiment |-> 50, baseline_sentiment |-> 0,
        mention_volume |-> 1000]>>}

DetectorResult(name, a) ==
    CASE name = "detect_earnings_surprise" ->
           detect_earnings_surprise("AAPL", a.actual_eps, a.estimated_eps)
      [] name = "detect_institutional_buying" ->
           detect_institutional_buying("AAPL", a.institutional_ownership_change,
                                       a.num_institutions_buying)
      [] name = "detect_insider_buying" ->
           detect_insider_buying("AAPL", a.insider_buy_volume,
                                 a.insider_sell_volume, a.num_insiders_buying)
      [] name = "detect_sentiment_spike" ->
           detect_sentiment_spike("AAPL", a.current_sentiment,
                                  a.baseline_sentiment, a.mention_volume)

\* the risk levels and top_n of the concurrent ranking calls
ConcRankCalls == {<<"Moderate", 10>>, <<"Aggressive", 2>>}

InitConc ==
    /\ pc = "idle"
    /\ op = "none"
    /\ args = << >>
    /\ result = << >>
    /\ engine = EngineConfig
    /\ \E sigs \in ConcSignalLists :
          heap = [stocks |-> mock_stocks, signals |-> sigs,
                  recommendations |-> [t \in Threads |-> << >>]]
    /\ threads = [t \in Threads |-> IdleFrame]
    /\ yahoo = YahooIdle
    /\ llm = LLMIdle

\* thread t's frame becomes f; every other caller that is inside a call has
\* now been interleaved with
Step(t, f) ==
    threads' = [u \in Threads |->
                   IF u = t THEN f
                   ELSE IF threads[u].pc \notin {"idle", "done"}
                        THEN [threads[u] EXCEPT !.interleaved = TRUE]
                        ELSE threads[u]]

Enter(t, name, a, label, l) ==
    Step(t, [pc |-> label, op |-> name, args |-> a, loc |-> l,
             result |-> << >>, interleaved |-> FALSE])

Goto(t, label, l) == Step(t, [threads[t] EXCEPT !.pc = label, !.loc = l])

Finish(t, r) == Step(t, [threads[t] EXCEPT !.pc = "done", !.result = r])

\* analyze_stock_risk: the components, then the overall score and the result
AnalyzeEnter(t) ==
    /\ threads[t].pc = "idle"
    /\ Enter(t, "analyze_stock_risk", AAPLScenario, "components", << >>)
    /\ UNCHANGED <<pc, op, args, result, engine, heap, yahoo, llm>>

AnalyzeComponents(t) ==
    /\ threads[t].pc = "components"
    /\ LET a == threads[t].args
           components ==
               [volatility_score |->
                    calculate_volatility_score(a.historical_volatility,
                                               a.volatility_percentile),
                beta_score |-> calculate_beta_score(a.beta),
                leverage_score |->
                    calculate_leverage_score(a.debt_to_equity,
                                             a.interest_coverage),
                earnings_stability_score |->
                    calculate_earnings_stability_score(
                        a.earnings_volatility,
                        a.consecutive_profitable_quarters),
                sector_risk_score |->
                    self_calculate_sector_risk_score(engine.risk, a.sector),
                valuation_risk_score |->
                    calculate_valuation_risk_score(a.pe_ratio, a.price_to_book,
                                                   a.price_to_sales)]
       IN  Goto(t, "overall", [components |-> components])
    /\ UNCHANGED <<pc, op, args, result, engine, heap, yahoo, llm>>

AnalyzeOverall(t) ==
    /\ threads[t].pc = "overall"
    /\ LET a == threads[t].args
           components == threads[t].loc.components
           overall_risk == self_calculate_overall_risk(engine.risk, components)
           risk_level == self_classify_risk_level(engine.risk, overall_risk)
           risk_band == self_get_risk_band(engine.risk, overall_risk)
           explanation ==
               RiskEngine_generate_explanation(a.ticker, overall_risk,
                                               risk_level, components)
       IN  Finish(t, [ticker |-> a.ticker, overall_risk_score |-> overall_risk,
                      risk_level |-> risk_level, components |-> components,
                      risk_band |-> risk_band, explanation |-> explanation])
    /\ UNCHANGED <<pc, op, args, result, engine, heap, yahoo, llm>>

\* a detector computes on its scalar arguments only
DetectorCall(t) ==
    /\ threads[t].pc = "idle"
    /\ \E c \in ConcDetectorCalls :
          Step(t, [pc |-> "done", op |-> c[1], args |-> c[2], loc |-> << >>,
                   result |-> DetectorResult(c[1], c[2]),
                   interleaved |-> FALSE])
    /\ UNCHANGED <<pc, op, args, result, engine, heap, yahoo, llm>>

\* aggregate_signals: one pass over the caller's list for the weighted sum,
\* a second pass for the total weight
AggregateEnter(t) ==
    /\ threads[t].pc = "idle"
    /\ Enter(t, "aggregate_signals",
             [signals |-> heap.signals, ticker |-> "AAPL"], "weighted_sum",
             << >>)
    /\ UNCHANGED <<pc, op, args, result, engine, heap, yahoo, llm>>

AggregateWeightedSum(t) ==
    /\ threads[t].pc = "weighted_sum"
    /\ IF heap.signals = << >>
       THEN Finish(t, 5000)
       ELSE Goto(t, "weight_total",
                 [weighted_sum |-> WeightedSum(heap.signals)])
    /\ UNCHANGED <<pc, op, args, result, engine, heap, yahoo, llm>>

AggregateWeightTotal(t) ==
    /\ threads[t].pc = "weight_total"
    /\ LET weighted_sum == threads[t].loc.weighted_sum
           weight_total == WeightTotal(heap.signals)
           aggregated ==
               IF weight_total > 0
               THEN RoundDiv(weighted_sum, weight_total)
               ELSE 0 - RoundDiv(weighted_sum, 0 - weight_total)
       IN  IF weight_total = 0 THEN Finish(t, 5000)
           ELSE Finish(t, Min(Max(aggregated, 0), 10000))
    /\ UNCHANGED <<pc, op, args, result, engine, heap, yahoo, llm>>

\* filter_by_risk_band: the comprehension visits the caller's list element by
\* element and collects into a list of its own
FilterEnter(t) ==
    /\ threads[t].pc = "idle"
    /\ \E lvl \in {"Moderate", "Aggressive"} :
          Enter(t, "filter_by_risk_band",
                [stocks |-> heap.stocks, user_risk_level |-> lvl], "filter",
                [i |-> 1, filtered |-> << >>])
    /\ UNCHANGED <<pc, op, args, result, engine, heap, yahoo, llm>>

FilterVisit(t) ==
    /\ threads[t].pc = "filter"
    /\ LET l == threads[t].loc
           band == risk_bands_get(threads[t].args.user_risk_level)
       IN  IF l.i <= Len(heap.stocks)
           THEN LET stock == heap.stocks[l.i]
                    keep == /\ band[1] <= Get(stock.risk_score, 5000)
                            /\ Get(stock.risk_score, 5000) <= band[2]
                IN  Goto(t, "filter",
                         [i |-> l.i + 1,
                          filtered |-> IF keep THEN Append(l.filtered, stock)
                                       ELSE l.filtered])
           ELSE Finish(t, l.filtered)
    /\ UNCHANGED <<pc, op, args, result, engine, heap, yahoo, llm>>

\* faulty variant: one list shared by all calls instead of a fresh one
recommendations_of_shared(t) == 1

\* recommendations = []: the list a call of rank_recommendations allocates;
\* every call allocates its own
recommendations_of(t) == t

RankEnter(t) ==
    /\ threads[t].pc = "idle"
    /\ \E c \in ConcRankCalls :
          Enter(t, "rank_recommendations",
                [stocks |-> heap.stocks, user_risk_level |-> c[1],
                 user_volatility_tolerance |-> 6000, top_n |-> c[2]],
                "loop", [i |-> 1])
    /\ heap' = [heap EXCEPT !.recommendations[recommendations_of(t)] = << >>]
    /\ UNCHANGED <<pc, op, args, result, engine, yahoo, llm>>

\* one iteration of the loop over stocks, or its exit
RankLoop(t) ==
    /\ threads[t].pc = "loop"
    /\ LET a == threads[t].args
           i == threads[t].loc.i
       IN  IF i <= Len(heap.stocks)
           THEN LET stock == heap.stocks[i]
                    risk_alignment ==
                        calculate_risk_alignment_score(
                            Get(stock.risk_score, 5000), a.user_risk_level,
                            a.user_volatility_tolerance)
                    macro_fit ==
                        calculate_macro_fit_score(Get(stock.sector, "Unknown"),
                                                  "neutral")
                    final_score ==
                        self_calculate_final_score(
                            engine.recommendation,
                            Get(stock.research_score, 5000),
                            Get(stock.signal_score, 5000),
                            risk_alignment, macro_fit)
                    scores ==
                        [research_score |-> Get(stock.research_score, 5000),
                         signal_score |-> Get(stock.signal_score, 5000),
                         risk_alignment_score |-> risk_alignment,
                         macro_fit_score |-> macro_fit,
                         final_score |-> final_score]
                    rec ==
                        [ticker |-> stock.ticker, scores |-> scores,
                         explanation |->
                             generate_explanation(
                                 stock.ticker, scores,
                                 Get(stock.sector, "Unknown"),
                                 a.user_risk_level),
                         reasoning_metadata |->
                             [research_score |-> scores.research_score,
                              signal_score |-> scores.signal_score,
                              risk_alignment_score |->
                                  scores.risk_alignment_score,
                              macro_fit_score |-> scores.macro_fit_score,
                              user_risk_level |-> a.user_risk_level,
                              stock_sector |-> stock.sector],
                         rank |-> 0]
                IN  /\ heap' = [heap EXCEPT
                                  !.recommendations[recommendations_of(t)] =
                                      Append(@, rec)]
                    /\ Goto(t, "loop", [i |-> i + 1])
           ELSE /\ Goto(t, "sort", << >>)
                /\ UNCHANGED heap
    /\ UNCHANGED <<pc, op, args, result, engine, yahoo, llm>>

\* faulty variant: the caller's list is sorted in place, by research score
SortInPlace_input(h, t) ==
    [h EXCEPT !.stocks =
        SortedDesc(@, [i \in 1..Len(@) |-> Get(@[i].research_score, 5000)])]

\* recommendations.sort(key=lambda x: x.scores.final_score, reverse=True)
SortInPlace(h, t) ==
    [h EXCEPT !.recommendations[recommendations_of(t)] =
        SortedDesc(@, [i \in 1..Len(@) |-> @[i].scores.final_score])]

RankSort(t) ==
    /\ threads[t].pc = "sort"
    /\ heap' = SortInPlace(heap, t)
    /\ Goto(t, "assign", << >>)
    /\ UNCHANGED <<pc, op, args, result, engine, yahoo, llm>>

\* for i, rec in enumerate(recommendations[:top_n], 1): rec.rank = i
RankAssign(t) ==
    /\ threads[t].pc = "assign"
    /\ LET recommendations == heap.recommendations[recommendations_of(t)]
           head == SliceTo(recommendations, threads[t].args.top_n)
       IN  heap' = [heap EXCEPT !.recommendations[recommendations_of(t)] =
                       AssignRanks(head)
                         \o SubSeq(recommendations, Len(head) + 1,
                                   Len(recommendations))]
    /\ Goto(t, "return", << >>)
    /\ UNCHANGED <<pc, op, args, result, engine, yahoo, llm>>

\* return recommendations[:top_n]
RankReturn(t) ==
    /\ threads[t].pc = "return"
    /\ Finish(t, SliceTo(heap.recommendations[recommendations_of(t)],
                         threads[t].args.top_n))
    /\ UNCHANGED <<pc, op, args, result, engine, heap, yahoo, llm>>

\* the caller takes the result; the list the call allocated is unreachable
ThreadReturn(t) ==
    /\ threads[t].pc = "done"
    /\ Step(t, IdleFrame)
    /\ heap' = [heap EXCEPT !.recommendations[recommendations_of(t)] = << >>]
    /\ UNCHANGED <<pc, op, args, result, engine, yahoo, llm>>

NextConc ==
    \E t \in Threads :
       \/ AnalyzeEnter(t)
       \/ AnalyzeComponents(t)
       \/ AnalyzeOverall(t)
       \/ DetectorCall(t)
       \/ AggregateEnter(t)
       \/ AggregateWeightedSum(t)
       \/ AggregateWeightTotal(t)
       \/ FilterEnter(t)
       \/ FilterVisit(t)
       \/ RankEnter(t)
       \/ RankLoop(t)
       \/ RankSort(t)
       \/ RankAssign(t)
       \/ RankReturn(t)
       \/ ThreadReturn(t)

SpecConc == InitConc /\ [][NextConc]_vars

---------------------------------------------------------------------------
(* Yahoo Finance provider (providers/yahoo.py): get_historical_data calls  *)
(* the data source in a retry loop.  outcomes lists what each call of      *)
(* stock.history did (raised, returned an empty frame, returned data),     *)
(* waits lists the sleeps made, result is "none" while the call runs, then *)
(* "frame", "empty_frame", or <<"raised", k>> for the exception of the     *)
(* k-th call.                                                              *)

MaxRetries == 3

BackoffFactors == {1, 2, 3}

\* self.backoff_factor ** retries
RECURSIVE Pow(_, _)
Pow(b, k) == IF k = 0 THEN 1 ELSE b * Pow(b, k - 1)

\* faulty variant: gives up one failure early (>= instead of >)
GiveUp_early(retries, max_retries) == retries >= max_retries

\* if retries > self.max_retries: ... raise
GiveUp(retries, max_retries) == retries > max_retries

InitYahoo ==
    /\ pc = "idle"
    /\ op = "none"
    /\ args = << >>
    /\ result = << >>
    /\ engine = EngineConfig
    /\ heap = [stocks |-> << >>, signals |-> << >>,
               recommendations |-> [t \in Threads |-> << >>]]
    /\ threads = [t \in Threads |-> IdleFrame]
    /\ yahoo = YahooIdle
    /\ llm = LLMIdle

\* the provider is constructed and get_historical_data entered: retries = 0
YahooEnter ==
    /\ yahoo.pc = "idle"
    /\ \E m \in -1..MaxRetries, b \in BackoffFactors :
          yahoo' = [pc |-> "loop", max_retries |-> m, backoff_factor |-> b,
                    retries |-> 0, outcomes |-> << >>, waits |-> << >>,
                    result |-> "none"]
    /\ UNCHANGED <<pc, op, args, result, engine, heap, threads, llm>>

\* one pass of the loop body: stock.history is called and returns data,
\* returns an empty frame, or raises
YahooCall ==
    /\ yahoo.pc = "loop"
    /\ yahoo.retries <= yahoo.max_retries
    /\ \E outcome \in {"data", "empty", "raise"} :
          LET outcomes == Append(yahoo.outcomes, outcome)
              retries == yahoo.retries + 1
          IN  IF outcome = "data"
              THEN yahoo' = [yahoo EXCEPT !.pc = "returned",
                                          !.outcomes = outcomes,
                                          !.result = "frame"]
              ELSE IF outcome = "empty"
              THEN yahoo' = [yahoo EXCEPT !.pc = "returned",
                                          !.outcomes = outcomes,
                                          !.result = "empty_frame"]
              ELSE IF GiveUp(retries, yahoo.max_retries)
              THEN yahoo' = [yahoo EXCEPT !.pc = "raised",
                                          !.outcomes = outcomes,
                                          !.retries = retries,
                                          !.result = <<"raised", Len(outcomes)>>]
              ELSE yahoo' = [yahoo EXCEPT
                               !.pc = "sleep",
                               !.outcomes = outcomes,
                               !.retries = retries,
                               !.waits = Append(@, Pow(yahoo.backoff_factor,
                                                       retries))]
    /\ UNCHANGED <<pc, op, args, result, engine, heap, threads, llm>>

\* asyncio.sleep(wait_time) is over, back to the loop test
YahooWake ==
    /\ yahoo.pc = "sleep"
    /\ yahoo' = [yahoo EXCEPT !.pc = "loop"]
    /\ UNCHANGED <<pc, op, args, result, engine, heap, threads, llm>>

\* the loop test fails: return pd.DataFrame() after the loop
YahooLoopExit ==
    /\ yahoo.pc = "loop"
    /\ ~(yahoo.retries <= yahoo.max_retries)
    /\ yahoo' = [yahoo EXCEPT !.pc = "returned", !.result = "empty_frame"]
    /\ UNCHANGED <<pc, op, args, result, engine, heap, threads, llm>>

\* the caller has the frame or the exception
YahooLeave ==
    /\ yahoo.pc \in {"returned", "raised"}
    /\ yahoo' = YahooIdle
    /\ UNCHANGED <<pc, op, args, result, engine, heap, threads, llm>>

NextYahoo ==
    \/ YahooEnter
    \/ YahooCall
    \/ YahooWake
    \/ YahooLoopExit
    \/ YahooLeave

SpecYahoo == InitYahoo /\ [][NextYahoo]_vars

---------------------------------------------------------------------------
(* LLMOrchestrator.analyze_stock (services/llm_orchestrator.py): the       *)
(* LangGraph workflow retrieve_data -> compute_metrics ->                  *)
(* risk_classification -> generate_analysis -> validate_schema, then       *)
(* generate_analysis again, store_result or the end.  A JSON object is a   *)
(* function from its keys to its values; the text fields of an analysis    *)
(* carry the number of the LLM call that wrote them.                       *)

MAX_RETRIES == 3

\* the fields of StructuredAnalysisSchema, all required
SchemaFields ==
    {"ticker", "summary", "key_insights", "strengths", "weaknesses",
     "opportunities", "threats", "confidence_score"}

\* StructuredAnalysisSchema(**d): every field present, 0 <= confidence <= 100
StructuredAnalysisSchema(d) ==
    /\ SchemaFields \subseteq DOMAIN d
    /\ d["confidence_score"] >= 0
    /\ d["confidence_score"] <= 10000

\* validated.model_dump(): the schema's fields, other keys are dropped
model_dump(d) == [f \in SchemaFields |-> d[f]]

\* a JSON object with the given keys, written by the n-th LLM call
Analysis(keys, n, confidence) ==
    [f \in keys |-> IF f = "confidence_score" THEN confidence ELSE n]

\* what self.llm.invoke and json.loads can do in the n-th call: raise, or
\* give an object that is complete, has an unknown key more, lacks a field,
\* or has a confidence outside 0..100
LLMResponses(n) ==
    {[kind |-> "raise", error |-> "llm"], [kind |-> "raise", error |-> "json"]}
    \cup {[kind |-> "json", content |-> c] :
             c \in {Analysis(SchemaFields, n, 8500),
                    Analysis(SchemaFields \cup {"note"}, n, 0),
                    Analysis(SchemaFields \ {"threats"}, n, 8500),
                    Analysis(SchemaFields, n, 10100),
                    Analysis(SchemaFields, n, -100)}}

generate_structured_analysis(state, response) ==
    IF response.kind = "json"
    THEN [state EXCEPT !.structured_analysis = response.content]
    ELSE [state EXCEPT !.validation_errors = Append(@, response.error)]

\* faulty variant: final_output is written before the schema is checked
validate_schema_eager(state) ==
    IF StructuredAnalysisSchema(state.structured_analysis)
    THEN [state EXCEPT !.final_output = Some(model_dump(state.structured_analysis)),
                       !.validation_errors = << >>]
    ELSE [state EXCEPT !.final_output = Some(state.structured_analysis),
                       !.validation_errors = Append(@, "schema"),
                       !.retry_count = @ + 1]

validate_schema(state) ==
    IF StructuredAnalysisSchema(state.structured_analysis)
    THEN [state EXCEPT !.final_output = Some(model_dump(state.structured_analysis)),
                       !.validation_errors = << >>]
    ELSE [state EXCEPT !.validation_errors = Append(@, "schema"),
                       !.retry_count = @ + 1]

\* faulty variant: one retry too many (> instead of >=)
should_retry_late(state) ==
    IF state.validation_errors = << >> THEN "store"
    ELSE IF state.retry_count > MAX_RETRIES THEN "fail"
    ELSE "retry"

should_retry(state) ==
    IF state.validation_errors = << >> THEN "store"
    ELSE IF state.retry_count >= MAX_RETRIES THEN "fail"
    ELSE "retry"

\* the conditional edges of validate_schema
EdgeOf(route) ==
    CASE route = "retry" -> "generate_analysis"
      [] route = "store" -> "store_result"
      [] route = "fail" -> "end"

InitLLM ==
    /\ pc = "idle"
    /\ op = "none"
    /\ args = << >>
    /\ result = << >>
    /\ engine = EngineConfig
    /\ heap = [stocks |-> << >>, signals |-> << >>,
               recommendations |-> [t \in Threads |-> << >>]]
    /\ threads = [t \in Threads |-> IdleFrame]
    /\ yahoo = YahooIdle
    /\ llm = LLMIdle

LLMGoto(node, state) ==
    /\ llm' = [llm EXCEPT !.node = node, !.state = state]
    /\ UNCHANGED <<pc, op, args, result, engine, heap, threads, yahoo>>

\* analyze_stock builds initial_state and invokes the workflow
LLMEnter ==
    /\ llm.node = "idle"
    /\ \E ticker \in {"AAPL", "TST"} :
          llm' = [LLMIdle EXCEPT !.node = "retrieve_data",
                                 !.state = initial_state(ticker)]
    /\ UNCHANGED <<pc, op, args, result, engine, heap, threads, yahoo>>

\* the SEC provider gives facts, gives none, or extract_metrics raises
LLMRetrieveData ==
    /\ llm.node = "retrieve_data"
    /\ \E outcome \in {"facts", "none", "raise"} :
          IF outcome = "raise"
          THEN llm' = [llm EXCEPT !.node = "end", !.raised = TRUE]
          ELSE llm' = [llm EXCEPT
                          !.node = "compute_metrics",
                          !.state.raw_data =
                              IF outcome = "facts" THEN "SEC EDGAR" ELSE "mock"]
    /\ UNCHANGED <<pc, op, args, result, engine, heap, threads, yahoo>>

LLMComputeMetrics ==
    /\ llm.node = "compute_metrics"
    /\ LLMGoto("risk_classification",
               [llm.state EXCEPT !.computed_metrics = "zeros"])

LLMRiskClassification ==
    /\ llm.node = "risk_classification"
    /\ LLMGoto("generate_analysis",
               [llm.state EXCEPT !.risk_classification = "Moderate"])

LLMGenerateAnalysis ==
    /\ llm.node = "generate_analysis"
    /\ \E response \in LLMResponses(llm.generated + 1) :
          llm' = [llm EXCEPT
                     !.node = "validate_schema",
                     !.state = generate_structured_analysis(@, response),
                     !.generated = @ + 1,
                     !.response = response]
    /\ UNCHANGED <<pc, op, args, result, engine, heap, threads, yahoo>>

\* the node and the conditional edge that follows it
LLMValidateSchema ==
    /\ llm.node = "validate_schema"
    /\ LET state == validate_schema(llm.state)
       IN  llm' = [llm EXCEPT
                      !.node = EdgeOf(should_retry(state)),
                      !.state = state,
                      !.validated = Some(llm.state.structured_analysis)]
    /\ UNCHANGED <<pc, op, args, result, engine, heap, threads, yahoo>>

LLMStoreResult ==
    /\ llm.node = "store_result"
    /\ llm' = [llm EXCEPT !.node = "end", !.stored = TRUE]
    /\ UNCHANGED <<pc, op, args, result, engine, heap, threads, yahoo>>

\* ainvoke is over: final_output if it is truthy, None otherwise and when
\* ainvoke raised
LLMReturn ==
    /\ llm.node = "end"
    /\ llm' = [llm EXCEPT
                  !.node = "returned",
                  !.ret = IF llm.raised THEN None
                          ELSE IF llm.state.final_output # None
                               THEN llm.state.final_output
                               ELSE None]
    /\ UNCHANGED <<pc, op, args, result, engine, heap, threads, yahoo>>

\* the caller has the result
LLMLeave ==
    /\ llm.node = "returned"
    /\ llm' = LLMIdle
    /\ UNCHANGED <<pc, op, args, result, engine, heap, threads, yahoo>>

\* the steps of a call in progress
LLMStep ==
    \/ LLMRetrieveData
    \/ LLMComputeMetrics
    \/ LLMRiskClassification
    \/ LLMGenerateAnalysis
    \/ LLMValidateSchema
    \/ LLMStoreResult
    \/ LLMReturn

NextLLM ==
    \/ LLMEnter
    \/ LLMRetrieveData
    \/ LLMComputeMetrics
    \/ LLMRiskClassification
    \/ LLMGenerateAnalysis
    \/ LLMValidateSchema
    \/ LLMStoreResult
    \/ LLMReturn
    \/ LLMLeave

\* a started workflow is run to its end: every node returns, the LLM call
\* within its timeout
SpecLLM == InitLLM /\ [][NextLLM]_vars /\ WF_vars(LLMStep)

---------------------------------------------------------------------------
(* Properties                                                              *)

Returned(name) == pc = "done" /\ op = name

InRange(x) == 0 <= x /\ x <= 10000

\* C1: analyze_stock_risk returns for every numeric input (negative, zero,
\* very large, optional arguments supplied or absent), and each of the six
\* component scores and the overall risk score lies in [0, 100]; so does
\* the result of each of the six score functions called on its own.
C1_RiskScoresInRange ==
    /\ Returned("analyze_stock_risk") =>
          /\ InRange(result.components.volatility_score)
          /\ InRange(result.components.beta_score)
          /\ InRange(result.components.leverage_score)
          /\ InRange(result.components.earnings_stability_score)
          /\ InRange(result.components.sector_risk_score)
          /\ InRange(result.components.valuation_risk_score)
          /\ InRange(result.overall_risk_score)
    /\ (pc = "done" /\ op \in {"calculate_volatility_score", "calculate_beta_score",
                                "calculate_leverage_score",
                                "calculate_earnings_stability_score",
                                "calculate_sector_risk_score",
                                "calculate_valuation_risk_score"}) =>
          InRange(result)

\* analyze_stock_risk has returned for a very large volatility, a negative
\* beta, a negative debt-to-equity, a negative P/E and absent P/B
C1_Witness ==
    /\ Returned("analyze_stock_risk")
    /\ args.historical_volatility = 20000
    /\ args.beta < 0
    /\ args.debt_to_equity < 0
    /\ args.earnings_volatility = 150
    /\ args.consecutive_profitable_quarters = 0
    /\ args.pe_ratio = Some(-500)
    /\ args.price_to_book = None
    /\ result.components.volatility_score = 10000
    /\ result.components.leverage_score = 0
    /\ result.components.earnings_stability_score = 10000

SignalDetectors ==
    {"detect_earnings_surprise", "detect_institutional_buying",
     "detect_insider_buying", "detect_sentiment_spike"}

\* C2: for valid inputs every Signal a detector emits has strength and
\* confidence in [0, 100], aggregate_signals returns a value in [0, 100],
\* and the risk-alignment, macro-fit and final scores (computed on their own
\* or stored in a recommendation) lie in [0, 100].
C2_SignalAndRecommendationScoresInRange ==
    /\ (pc = "done" /\ op \in SignalDetectors /\ result # None) =>
          /\ InRange(result[1].strength)
          /\ InRange(result[1].confidence)
    /\ (pc = "done" /\ op \in {"aggregate_signals", "calculate_risk_alignment_score",
                                "calculate_macro_fit_score", "calculate_final_score"}) =>
          InRange(result)
    /\ Returned("rank_recommendations") =>
          \A i \in 1..Len(result) :
              /\ InRange(result[i].scores.risk_alignment_score)
              /\ InRange(result[i].scores.macro_fit_score)
              /\ InRange(result[i].scores.final_score)

\* a sentiment spike with a mention volume far above the cap was detected
C2_Witness ==
    /\ Returned("detect_sentiment_spike")
    /\ args.mention_volume = 100000
    /\ result # None
    /\ result[1].strength = 10000
    /\ result[1].confidence = 6000

\* C3: classify_risk_level and get_risk_band agree for every score s:
\* s <= 33.33 is Conservative and "0-33", 33.33 < s <= 66.67 is Moderate and
\* "34-66", s > 66.67 is Aggressive and "67-100"; the risk_level and
\* risk_band of every RiskAnalysis name the same band, that of its score.
C3_LevelOf(s) ==
    IF s <= 3333 THEN "Conservative" ELSE IF s <= 6667 THEN "Moderate" ELSE "Aggressive"

C3_BandOf(level) ==
    IF level = "Conservative" THEN "0-33"
    ELSE IF level = "Moderate" THEN "34-66" ELSE "67-100"

C3_ClassificationAndBandAgree ==
    /\ Returned("classify_risk_level") => result = C3_LevelOf(args.risk_score)
    /\ Returned("get_risk_band") => result = C3_BandOf(C3_LevelOf(args.risk_score))
    /\ Returned("analyze_stock_risk") =>
          /\ result.risk_level = C3_LevelOf(result.overall_risk_score)
          /\ result.risk_band = C3_BandOf(result.risk_level)

\* the band of the boundary score 33.33 was asked for
C3_Witness ==
    /\ Returned("get_risk_band")
    /\ args.risk_score = 3333
    /\ result = "0-33"

\* the risk score the engine reads from a candidate: stock.get("risk_score", 50)
RiskScoreOf(stock) == IF stock.risk_score = None THEN 5000 ELSE stock.risk_score[1]

C4_Band(level) ==
    IF level = "Conservative" THEN <<0, 3300>>
    ELSE IF level = "Moderate" THEN <<3400, 6600>> ELSE <<6700, 10000>>

C4_InBand(stock, level) ==
    C4_Band(level)[1] <= RiskScoreOf(stock) /\ RiskScoreOf(stock) <= C4_Band(level)[2]

\* C4: for each recognized risk level filter_by_risk_band returns exactly the
\* candidates whose risk score lies in the level's inclusive band
\* (Conservative [0,33], Moderate [34,66], Aggressive [67,100]), in their
\* input order, and drops all others.
C4_FilterKeepsExactlyTheBand ==
    (Returned("filter_by_risk_band")
        /\ args.user_risk_level \in {"Conservative", "Moderate", "Aggressive"}) =>
      LET stocks == args.stocks
          kept == {i \in 1..Len(stocks) : C4_InBand(stocks[i], args.user_risk_level)}
          nth(n) == CHOOSE i \in kept : Cardinality({j \in kept : j < i}) = n - 1
      IN  /\ Len(result) = Cardinality(kept)
          /\ \A n \in 1..Len(result) : result[n] = stocks[nth(n)]

\* a Moderate filter kept the scores 34 and 66, in input order, and dropped 33.5
C4_Witness ==
    /\ Returned("filter_by_risk_band")
    /\ args.user_risk_level = "Moderate"
    /\ Len(args.stocks) = 3
    /\ args.stocks[1].risk_score = Some(6600)
    /\ args.stocks[2].risk_score = Some(3350)
    /\ args.stocks[3].risk_score = Some(3400)
    /\ result = <<args.stocks[1], args.stocks[3]>>

\* C5: the filter uses the bands the Risk Engine classifies with: a candidate
\* with risk score s in [0, 100] is retained when the user's risk level is
\* classify_risk_level(s).
C5_FilterAgreesWithClassification ==
    Returned("filter_by_risk_band") =>
      \A i \in 1..Len(args.stocks) :
          (/\ args.stocks[i].risk_score # None
           /\ InRange(args.stocks[i].risk_score[1])
           /\ classify_risk_level(args.stocks[i].risk_score[1]) = args.user_risk_level)
          => \E n \in 1..Len(result) : result[n] = args.stocks[i]

\* the final score rank_recommendations computes for one candidate
FinalOf(stock) ==
    MakeRecommendation(stock, args.user_risk_level,
                       args.user_volatility_tolerance).scores.final_score

Tickers(recs) == {recs[i].ticker : i \in 1..Len(recs)}

\* the position of the recommendation for a ticker in a result
PosOf(recs, t) == CHOOSE n \in 1..Len(recs) : recs[n].ticker = t

\* C6: rank_recommendations returns its result in non-increasing order of
\* final score, and no discarded candidate has a final score strictly
\* greater than a returned one; candidates scored [90, 70, 95] with top_n = 2
\* give the 95 candidate with rank 1, then the 90 candidate with rank 2.
C6_RankedDescendingTopOnes ==
    Returned("rank_recommendations") =>
      /\ \A i, j \in 1..Len(result) :
            i < j => result[i].scores.final_score >= result[j].scores.final_score
      /\ \A k \in 1..Len(args.stocks) : \A n \in 1..Len(result) :
            args.stocks[k].ticker \notin Tickers(result)
              => FinalOf(args.stocks[k]) <= result[n].scores.final_score
      /\ (/\ Len(args.stocks) = 3
          /\ [k \in 1..3 |-> FinalOf(args.stocks[k])] = <<9000, 7000, 9500>>
          /\ args.top_n = 2)
         => /\ Len(result) = 2
            /\ result[1].ticker = args.stocks[3].ticker
            /\ result[1].scores.final_score = 9500
            /\ result[1].rank = 1
            /\ result[2].ticker = args.stocks[1].ticker
            /\ result[2].scores.final_score = 9000
            /\ result[2].rank = 2

\* the candidates scored 90, 70 and 95, in this order, were ranked with top_n = 2
C6_Witness ==
    /\ Returned("rank_recommendations")
    /\ Len(args.stocks) = 3
    /\ [k \in 1..3 |-> FinalOf(args.stocks[k])] = <<9000, 7000, 9500>>
    /\ args.top_n = 2
    /\ Len(result) = 2
    /\ result[1].scores.final_score = 9500
    /\ result[2].scores.final_score = 9000

\* C7: for top_n >= 0 and a candidate list of length n, rank_recommendations
\* returns exactly min(top_n, n) recommendations and the i-th of them has
\* rank i: ranks are unique, contiguous from 1, and never the placeholder 0.
C7_RanksContiguousFromOne ==
    (Returned("rank_recommendations") /\ args.top_n >= 0) =>
      /\ Len(result) = (IF args.top_n <= Len(args.stocks)
                        THEN args.top_n ELSE Len(args.stocks))
      /\ \A i \in 1..Len(result) : result[i].rank = i
      /\ \A i, j \in 1..Len(result) : result[i].rank = result[j].rank => i = j
      /\ \A i \in 1..Len(result) : result[i].rank # 0

\* three candidates were ranked with top_n = 2: two are returned, ranked 1, 2
C7_Witness ==
    /\ Returned("rank_recommendations")
    /\ Len(args.stocks) = 3
    /\ args.top_n = 2
    /\ Len(result) = 2
    /\ result[1].rank = 1
    /\ result[2].rank = 2

\* C8: two candidates with exactly equal final scores come out in their input
\* order: the earlier one gets the smaller rank, and when only one of them
\* is returned it is the earlier one; the ticker plays no part.
C8_TiesKeepInputOrder ==
    Returned("rank_recommendations") =>
      \A i, j \in 1..Len(args.stocks) :
          (i < j /\ FinalOf(args.stocks[i]) = FinalOf(args.stocks[j])) =>
            LET ti == args.stocks[i].ticker
                tj == args.stocks[j].ticker
            IN  /\ tj \in Tickers(result) => ti \in Tickers(result)
                /\ ({ti, tj} \subseteq Tickers(result)) =>
                      /\ PosOf(result, ti) < PosOf(result, tj)
                      /\ result[PosOf(result, ti)].rank < result[PosOf(result, tj)].rank

\* NVDA and AAPL tie at 90 and NVDA, later in the alphabet, was given first:
\* with top_n = 1 NVDA alone is returned
C8_Witness ==
    /\ Returned("rank_recommendations")
    /\ Len(args.stocks) = 3
    /\ args.stocks[1].ticker = "NVDA"
    /\ args.stocks[2].ticker = "MSFT"
    /\ args.stocks[3].ticker = "AAPL"
    /\ FinalOf(args.stocks[1]) = FinalOf(args.stocks[3])
    /\ args.top_n = 1
    /\ Len(result) = 1
    /\ result[1].ticker = "NVDA"

\* the sum of f[1] .. f[n]
RECURSIVE SumTo(_, _)
SumTo(f, n) == IF n = 0 THEN 0 ELSE f[n] + SumTo(f, n - 1)

\* C9: aggregate_signals returns exactly 50 when the list is empty or the sum
\* of the confidence weights is zero (no division happens); otherwise it
\* returns sum(strength * confidence/100) / sum(confidence/100), clamped to
\* [0, 100].  The mean is stated without dividing, to the nearest hundredth:
\* an unclamped result r satisfies 2 * |r * W - X| <= W for the weighted sum X
\* and the total weight W.
C9_AggregateIsWeightedMean ==
    Returned("aggregate_signals") =>
      LET sigs == args.signals
          W == SumTo([i \in 1..Len(sigs) |-> sigs[i].confidence], Len(sigs))
          X == SumTo([i \in 1..Len(sigs) |-> sigs[i].strength * sigs[i].confidence],
                     Len(sigs))
      IN  IF Len(sigs) = 0 \/ W = 0 THEN result = 5000
          ELSE /\ InRange(result)
               /\ (0 < result /\ result < 10000) => 2 * Abs(result * W - X) <= W
               /\ result = 0 => 2 * X <= W
               /\ result = 10000 => 2 * (10000 * W - X) <= W

\* two signals of different confidence were averaged, without clamping
C9_Witness ==
    /\ Returned("aggregate_signals")
    /\ Len(args.signals) = 2
    /\ args.signals[1].strength = 3000
    /\ args.signals[1].confidence = 9500
    /\ args.signals[2].strength = 0
    /\ args.signals[2].confidence = 7500
    /\ result = 1676

\* the input candidate a recommendation was built from
StockOf(rec) == CHOOSE st \in {args.stocks[k] : k \in 1..Len(args.stocks)} : st.ticker = rec.ticker

\* C10: the final score of every recommendation rank_recommendations returns
\* is clamp(0.4 * research + 0.3 * signal + 0.2 * risk_alignment
\* + 0.1 * macro_fit, 0, 100) of the four component scores stored with it,
\* where a candidate's missing research_score or signal_score counts as 50.
C10_FinalScoreIsWeightedSum ==
    Returned("rank_recommendations") =>
      \A i \in 1..Len(result) :
          LET sc == result[i].scores
              st == StockOf(result[i])
              weighted == (40 * sc.research_score + 30 * sc.signal_score
                           + 20 * sc.risk_alignment_score
                           + 10 * sc.macro_fit_score + 50) \div 100
          IN  /\ sc.final_score =
                    (IF weighted < 0 THEN 0
                     ELSE IF weighted > 10000 THEN 10000 ELSE weighted)
              /\ sc.research_score =
                    (IF st.research_score = None THEN 5000 ELSE st.research_score[1])
              /\ sc.signal_score =
                    (IF st.signal_score = None THEN 5000 ELSE st.signal_score[1])

\* a candidate without research and signal scores was ranked first
C10_Witness ==
    /\ Returned("rank_recommendations")
    /\ Len(result) >= 1
    /\ result[1].ticker = "XOM"
    /\ StockOf(result[1]).research_score = None
    /\ StockOf(result[1]).signal_score = None
    /\ result[1].scores.research_score = 5000
    /\ result[1].scores.signal_score = 5000
    /\ result[1].scores.risk_alignment_score = 10000
    /\ result[1].scores.final_score = 6000

\* the user's band of C11: the three recognized bands, else the full range
C11_Band(level) ==
    IF level = "Conservative" THEN <<0, 3300>>
    ELSE IF level = "Moderate" THEN <<3400, 6600>>
    ELSE IF level = "Aggressive" THEN <<6700, 10000>> ELSE <<0, 10000>>

\* the gap between a risk score and the nearest edge of a band, 0 inside it
C11_Distance(sc, band) ==
    IF sc < band[1] THEN band[1] - sc ELSE IF sc > band[2] THEN sc - band[2] ELSE 0

C11_Base(sc, band) ==
    IF C11_Distance(sc, band) = 0 THEN 10000
    ELSE IF 2 * C11_Distance(sc, band) >= 10000 THEN 0
    ELSE 10000 - 2 * C11_Distance(sc, band)

\* C11: calculate_risk_alignment_score takes base = 100 inside the user's
\* band and max(0, 100 - 2 * distance to the nearest band edge) outside, and
\* returns clamp(base * (0.7 + 0.3 * tolerance / 100), 0, 100); for a
\* tolerance in [0, 100] the result lies between 70% of base and base (to the
\* nearest hundredth), an in-band stock scores between 70 and 100 and a stock
\* 50 or more points outside the band scores 0.
C11_RiskAlignmentFormula ==
    (Returned("calculate_risk_alignment_score")
        /\ InRange(args.user_volatility_tolerance)) =>
      LET band == C11_Band(args.user_risk_level)
          dist == C11_Distance(args.stock_risk_score, band)
          base == C11_Base(args.stock_risk_score, band)
          exact == base * (70000 + 3 * args.user_volatility_tolerance)
      IN  /\ 2 * Abs(100000 * result - exact) <= 100000
          /\ 100 * result + 50 >= 70 * base
          /\ result <= base
          /\ dist = 0 => (7000 <= result /\ result <= 10000)
          /\ dist >= 5000 => result = 0

\* a stock 18 points above the Moderate band, tolerance 60: base 64, score 56.32
C11_Witness ==
    /\ Returned("calculate_risk_alignment_score")
    /\ args.user_risk_level = "Moderate"
    /\ args.stock_risk_score = 8400
    /\ args.user_volatility_tolerance = 6000
    /\ result = 5632

\* the six component scores of a RiskAnalysis, in declaration order
ComponentList(c) ==
    <<c.volatility_score, c.beta_score, c.leverage_score,
      c.earnings_stability_score, c.sector_risk_score, c.valuation_risk_score>>

\* C12: the overall_risk_score of every RiskAnalysis is clamp(0.20 * volatility
\* + 0.15 * beta + 0.20 * leverage + 0.15 * earnings_stability + 0.10 * sector
\* + 0.20 * valuation, 0, 100) of the components returned with it (to the
\* nearest hundredth), and it is never below the smallest component score
\* nor above the largest.
C12_OverallIsWeightedSum ==
    Returned("analyze_stock_risk") =>
      LET c == result.components
          l == ComponentList(c)
          sum == 20 * c.volatility_score + 15 * c.beta_score
                 + 20 * c.leverage_score + 15 * c.earnings_stability_score
                 + 10 * c.sector_risk_score + 20 * c.valuation_risk_score
      IN  /\ InRange(result.overall_risk_score)
          /\ 2 * Abs(100 * result.overall_risk_score - sum) <= 100
          /\ \E i \in 1..6 : l[i] <= result.overall_risk_score
          /\ \E i \in 1..6 : l[i] >= result.overall_risk_score

\* the analysis of the AAPL scenario: components 50, 60, 16.67, 0, 65, 46.88
\* and overall score 38.21
C12_Witness ==
    /\ Returned("analyze_stock_risk")
    /\ args = AAPLScenario
    /\ ComponentList(result.components) = <<5000, 6000, 1667, 0, 6500, 4688>>
    /\ result.overall_risk_score = 3821

C14_InsiderBuying ==
    Returned("detect_insider_buying") =>
      LET buy == args.insider_buy_volume
          sell == args.insider_sell_volume
          n == args.num_insiders_buying
      IN  /\ (result # None) <=> (buy - sell > 0 /\ n >= 2)
          /\ (result # None /\ buy >= 0 /\ sell >= 0) =>
                LET ratio == result[1].metadata.buy_sell_ratio
                IN  /\ sell = 0 => ratio = 1000
                    /\ sell # 0 => 2 * Abs(ratio * sell - 100 * buy) <= sell
                    /\ result[1].strength =
                          Min(20 * ratio, 6000) + Min(1000 * n, 4000)
                    /\ result[1].confidence = 7500
                    /\ result[1].signal_type = "insider_buying"

\* three insiders bought and nobody sold: sentinel ratio 10.0, strength 90
C14_Witness ==
    /\ Returned("detect_insider_buying")
    /\ args.insider_sell_volume = 0
    /\ args.insider_buy_volume = 300
    /\ args.num_insiders_buying = 3
    /\ result # None
    /\ result[1].metadata.buy_sell_ratio = 1000
    /\ result[1].strength = 9000

\* C15: detect_institutional_buying emits a signal exactly when the ownership
\* change is >= 2.0 and at least 3 institutions are buying; the strength is
\* min(10 * change, 50) + min(5 * institutions, 50) and the confidence is
\* min(60 + 5 * institutions, 95), so every emitted signal has strength in
\* [35, 100] and confidence in [75, 95].
C15_InstitutionalBuying ==
    Returned("detect_institutional_buying") =>
      LET change == args.institutional_ownership_change
          n == args.num_institutions_buying
      IN  /\ (result # None) <=> (change >= 200 /\ n >= 3)
          /\ result # None =>
                /\ result[1].signal_type = "institutional_buying"
                /\ result[1].strength =
                      Min(10 * change, 5000) + Min(500 * n, 5000)
                /\ result[1].confidence = Min(6000 + 500 * n, 9500)
                /\ 3500 <= result[1].strength /\ result[1].strength <= 10000
                /\ 7500 <= result[1].confidence /\ result[1].confidence <= 9500

\* the smallest emitted signal: change exactly 2.0 with exactly 3 institutions
C15_Witness ==
    /\ Returned("detect_institutional_buying")
    /\ args.institutional_ownership_change = 200
    /\ args.num_institutions_buying = 3
    /\ result # None
    /\ result[1].strength = 3500
    /\ result[1].confidence = 7500

\* C16: the risk sub-scores are monotone in their inputs, the other arguments
\* fixed: a larger historical_volatility never gives a smaller volatility
\* score, a larger debt_to_equity never gives a smaller leverage score, and
\* more consecutive_profitable_quarters never gives a larger
\* earnings-stability score; from 12 quarters on the score is the one of 12.
\* The returned score is compared with the score of every larger input in a
\* dense range above the call's own input.
C16_SubScoresMonotone ==
    /\ Returned("calculate_volatility_score") =>
          \A d \in 0..60 :
             calculate_volatility_score(args.historical_volatility + d,
                                        args.volatility_percentile) >= result
    /\ Returned("calculate_leverage_score") =>
          \A d \in 0..420 :
             calculate_leverage_score(args.debt_to_equity + d,
                                      args.interest_coverage) >= result
    /\ Returned("calculate_earnings_stability_score") =>
          /\ \A d \in 0..14 :
                calculate_earnings_stability_score(
                    args.earnings_volatility,
                    args.consecutive_profitable_quarters + d) <= result
          /\ args.consecutive_profitable_quarters >= 12 =>
                result = calculate_earnings_stability_score(
                             args.earnings_volatility, 12)

\* a volatility of 0.25 scored 50, and doubling the volatility scores more
C16_Witness ==
    /\ Returned("calculate_volatility_score")
    /\ args.historical_volatility = 25
    /\ args.volatility_percentile = None
    /\ result = 5000
    /\ calculate_volatility_score(50, None) > result

\* C17: calculate_beta_score returns clamp(50 * beta, 0, 100) for beta >= 0
\* and max(0, 50 + 25 * beta) for beta < 0: beta 1.0 scores exactly 50,
\* beta 0.5 scores below 50, beta 1.5 scores above 50, beta >= 2 scores 100
\* and beta <= -2 scores 0.
C17_BetaScore ==
    Returned("calculate_beta_score") =>
      LET beta == args.beta
      IN  /\ (beta >= 0 /\ 50 * beta <= 10000) => result = 50 * beta
          /\ (beta >= 0 /\ 50 * beta > 10000) => result = 10000
          /\ (beta < 0 /\ 5000 + 25 * beta >= 0) => result = 5000 + 25 * beta
          /\ (beta < 0 /\ 5000 + 25 * beta < 0) => result = 0
          /\ beta = 100 => result = 5000
          /\ beta = 50 => result < 5000
          /\ beta = 150 => result > 5000
          /\ beta >= 200 => result = 10000
          /\ beta <= -200 => result = 0

\* a beta of -3.0 was scored: 50 - 75 is floored at 0
C17_Witness ==
    /\ Returned("calculate_beta_score")
    /\ args.beta = -300
    /\ result = 0

\* the strings the tables know
C18_KnownLevels == {"Conservative", "Moderate", "Aggressive"}

C18_KnownRegimes == {"bull", "bear", "neutral"}

\* C18: unrecognized strings yield the documented defaults: an unknown sector
\* gives a risk sector score of 50 and a macro-fit score of 50, an unknown
\* market regime uses the neutral table (50 for every sector), and an
\* unrecognized user risk level uses the full band 0-100, both in
\* filter_by_risk_band (no candidate with a risk score in [0, 100] is dropped)
\* and in calculate_risk_alignment_score (base 100 for every risk score in
\* [0, 100], so the result is 100 * (0.7 + 0.3 * tolerance / 100)).
C18_UnrecognizedStringsDefault ==
    /\ (Returned("calculate_sector_risk_score")
          /\ args.sector \notin DOMAIN SECTOR_RISK_MAP) => result = 5000
    /\ (Returned("calculate_macro_fit_score")
          /\ args.sector \notin DOMAIN sector_scores["neutral"]) => result = 5000
    /\ (Returned("calculate_macro_fit_score")
          /\ args.current_market_regime \notin C18_KnownRegimes) => result = 5000
    /\ (Returned("filter_by_risk_band")
          /\ args.user_risk_level \notin C18_KnownLevels) =>
          \A i \in 1..Len(args.stocks) :
             InRange(Get(args.stocks[i].risk_score, 5000)) =>
               \E j \in 1..Len(result) : result[j] = args.stocks[i]
    /\ (Returned("calculate_risk_alignment_score")
          /\ args.user_risk_level \notin C18_KnownLevels
          /\ InRange(args.stock_risk_score)
          /\ InRange(args.user_volatility_tolerance)) =>
          2 * Abs(100000 * result
                  - 10000 * (70000 + 3 * args.user_volatility_tolerance))
            <= 100000

\* a Speculative user filtered a list holding a score of 0 and one of 100,
\* and nothing was dropped
C18_Witness ==
    /\ Returned("filter_by_risk_band")
    /\ args.user_risk_level = "Speculative"
    /\ Len(args.stocks) = 2
    /\ args.stocks[1].risk_score = Some(0)
    /\ args.stocks[2].risk_score = Some(10000)
    /\ result = args.stocks

\* what a call returns when it runs alone on the arguments it was given
Alone(name, a) ==
    CASE name = "analyze_stock_risk" -> analyze_stock_risk(a)
      [] name = "aggregate_signals" -> aggregate_signals(a.signals, a.ticker)
      [] name = "filter_by_risk_band" ->
           filter_by_risk_band(a.stocks, a.user_risk_level)
      [] name = "rank_recommendations" ->
           rank_recommendations(a.stocks, a.user_risk_level,
                                a.user_volatility_tolerance, a.top_n)
      [] OTHER -> DetectorResult(name, a)

\* C19: engine invocations are independent under any interleaving: when
\* several calls (analyze_stock_risk, the detectors, aggregate_signals,
\* filter_by_risk_band, rank_recommendations) run concurrently on the shared
\* engine instances, each call returns exactly the result it returns when
\* run alone.
C19_CallsIndependent ==
    \A t \in Threads :
       threads[t].pc = "done" =>
         threads[t].result = Alone(threads[t].op, threads[t].args)

\* a ranking call finished after another caller's steps ran in the middle of
\* it, while that other caller is in the middle of its own ranking call
C19_Witness ==
    \E t, u \in Threads :
       /\ t # u
       /\ threads[t].pc = "done"
       /\ threads[t].op = "rank_recommendations"
       /\ threads[t].interleaved
       /\ Len(threads[t].result) = 3
       /\ threads[u].op = "rank_recommendations"
       /\ threads[u].pc = "sort"

\* C20: no engine operation changes anything but its own fresh result: every
\* step leaves the configuration (weights, thresholds, sector table) and the
\* caller's input lists (elements, order, fields) as they were, and a list of
\* recommendations is changed only by a step of the ranking call that
\* allocated it.
C20_OnlyOwnResultChanges ==
    [][/\ engine' = engine
       /\ heap'.stocks = heap.stocks
       /\ heap'.signals = heap.signals
       /\ \A u \in Threads :
             heap'.recommendations[u] # heap.recommendations[u] =>
               /\ <<threads'[u].pc, threads'[u].loc>>
                     # <<threads[u].pc, threads[u].loc>>
               /\ \/ threads[u].op = "rank_recommendations"
                  \/ threads'[u].op = "rank_recommendations"]_vars

\* a ranking call returned its recommendations in an order other than the
\* input's, ranked from 1, and the caller's list is as the caller built it
C20_Witness ==
    \E t \in Threads :
       /\ threads[t].pc = "done"
       /\ threads[t].op = "rank_recommendations"
       /\ Len(threads[t].result) = 3
       /\ threads[t].result[1].ticker = "MSFT"
       /\ threads[t].result[1].rank = 1
       /\ heap.stocks = mock_stocks
       /\ heap.stocks[1].ticker = "AAPL"
       /\ engine = EngineConfig

\* the calls of outcomes that raised
Failures(outcomes) == Cardinality({i \in 1..Len(outcomes) : outcomes[i] = "raise"})

\* C21: get_historical_data calls the data source at most max_retries + 1
\* times; the first call that does not raise ends the operation at once (an
\* empty response is returned as an empty frame, not retried); after the k-th
\* failure with k <= max_retries it waits backoff_factor^k and tries again;
\* when max_retries + 1 consecutive calls have failed it re-raises the last
\* exception.  With max_retries = 1 and one failure followed by a success,
\* exactly 2 calls are made and the data is returned.
C21_BoundedRetries ==
    yahoo.pc # "idle" =>
      LET n == Len(yahoo.outcomes)
          k == Failures(yahoo.outcomes)
      IN  /\ n <= yahoo.max_retries + 1
          /\ \A i \in 1..(n - 1) : yahoo.outcomes[i] = "raise"
          /\ (n >= 1 /\ yahoo.outcomes[n] = "data") =>
                (yahoo.pc = "returned" /\ yahoo.result = "frame")
          /\ (n >= 1 /\ yahoo.outcomes[n] = "empty") =>
                (yahoo.pc = "returned" /\ yahoo.result = "empty_frame")
          /\ (k = n /\ k <= yahoo.max_retries) =>
                /\ yahoo.pc \in {"loop", "sleep"}
                /\ Len(yahoo.waits) = k
          /\ \A j \in 1..Len(yahoo.waits) :
                yahoo.waits[j] = Pow(yahoo.backoff_factor, j)
          /\ (n >= 1 /\ k = n /\ k = yahoo.max_retries + 1) =>
                (yahoo.pc = "raised" /\ yahoo.result = <<"raised", n>>)
          /\ yahoo.pc = "raised" => k = yahoo.max_retries + 1
          /\ (yahoo.max_retries = 1 /\ yahoo.pc = "returned"
                /\ k = 1 /\ yahoo.outcomes[n] = "data") =>
                (n = 2 /\ yahoo.result = "frame")

\* max_retries = 1: the first call raised, the provider slept 2^1 and the
\* second call returned the data
C21_Witness ==
    /\ yahoo.pc = "returned"
    /\ yahoo.max_retries = 1
    /\ yahoo.backoff_factor = 2
    /\ yahoo.outcomes = <<"raise", "data">>
    /\ yahoo.waits = <<2>>
    /\ yahoo.result = "frame"

\* clamp(ratio / divisor * 100, 0, 100)
C22_Scaled(ratio, divisor) == Min(Max(RoundDiv(ratio * 100, divisor), 0), 10000)

\* the scaled scores of the ratios of a call that satisfy Counted
C22_Scores(a, Counted(_)) ==
    (IF Counted(a.pe_ratio) THEN <<C22_Scaled(a.pe_ratio[1], 50)>> ELSE << >>)
    \o (IF Counted(a.price_to_book)
        THEN <<C22_Scaled(a.price_to_book[1], 8)>> ELSE << >>)
    \o (IF Counted(a.price_to_sales)
        THEN <<C22_Scaled(a.price_to_sales[1], 8)>> ELSE << >>)

C22_Supplied(ratio) == ratio # None

C22_SuppliedPositive(ratio) == ratio # None /\ ratio[1] > 0

\* C22 as claimed: calculate_valuation_risk_score returns the average, over
\* every ratio among P/E, P/B and P/S that is supplied (zero and negative
\* values included), of clamp(ratio / divisor * 100, 0, 100) with divisors
\* 50, 8 and 8, and returns 50 only when none of the three is supplied.
C22_AveragesEverySuppliedRatio ==
    Returned("calculate_valuation_risk_score") =>
      LET scores == C22_Scores(args, C22_Supplied)
      IN  IF scores = << >> THEN result = 5000
          ELSE result = RoundDiv(SumSeq(scores), Len(scores))

\* C22 as amended: calculate_valuation_risk_score returns the average, over
\* every ratio that is supplied and greater than 0, of
\* min(ratio / divisor * 100, 100) with divisors 50, 8 and 8; a ratio that is
\* zero or negative is skipped like one that is not supplied, and the result
\* is 50 when no ratio is supplied and positive.
C22_AveragesPositiveRatios ==
    Returned("calculate_valuation_risk_score") =>
      LET scores == C22_Scores(args, C22_SuppliedPositive)
      IN  IF scores = << >> THEN result = 5000
          ELSE result = RoundDiv(SumSeq(scores), Len(scores))

\* a P/E of 0 was supplied with a P/B of 3.5: the score is that of the P/B
\* alone, 43.75, not the average 21.88 of 0 and 43.75
C22_Witness ==
    /\ Returned("calculate_valuation_risk_score")
    /\ args.pe_ratio = Some(0)
    /\ args.price_to_book = Some(350)
    /\ args.price_to_sales = None
    /\ result = 4375

\* the step penalty of an interest coverage
C23_Penalty(coverage) ==
    IF coverage < 150 THEN 3000 ELSE IF coverage < 300 THEN 1500
    ELSE IF coverage < 500 THEN 500 ELSE 0

C24_Order ==
    <<"Volatility", "Beta", "Leverage", "Earnings Stability", "Sector",
      "Valuation">>

C24_Score(components, i) ==
    CASE i = 1 -> components.volatility_score
      [] i = 2 -> components.beta_score
      [] i = 3 -> components.leverage_score
      [] i = 4 -> components.earnings_stability_score
      [] i = 5 -> components.sector_risk_score
      [] i = 6 -> components.valuation_risk_score

\* the earliest component, in C24_Order, of maximal score outside skip
C24_Top(components, skip) ==
    CHOOSE i \in (1..6) \ skip :
        \A j \in (1..6) \ skip :
            \/ C24_Score(components, i) > C24_Score(components, j)
            \/ C24_Score(components, i) = C24_Score(components, j) /\ i <= j

C24_Names(components, top_risks) ==
    LET first == C24_Top(components, {})
        second == C24_Top(components, {first})
    IN  /\ Len(top_risks) = 2
        /\ top_risks[1] = <<C24_Order[first], C24_Score(components, first)>>
        /\ top_risks[2] = <<C24_Order[second], C24_Score(components, second)>>
        /\ top_risks[1][1] # top_risks[2][1]
        /\ \A j \in 1..6 : top_risks[1][2] >= C24_Score(components, j)
        /\ \A j \in (1..6) \ {first} :
               top_risks[2][2] >= C24_Score(components, j)
        /\ (\A j \in 1..6 : C24_Score(components, j) = C24_Score(components, 1))
               => /\ top_risks[1][1] = "Volatility"
                  /\ top_risks[2][1] = "Beta"

\* C24: the explanation names two distinct components: the first has the
\* maximum score of the six, the second the maximum of the remaining five,
\* and ties go to the earlier component in the order Volatility, Beta,
\* Leverage, Earnings Stability, Sector, Valuation (six equal scores name
\* Volatility, then Beta).
C24_TopRisks ==
    /\ Returned("RiskEngine.generate_explanation") =>
           C24_Names(args.components, result.top_risks)
    /\ Returned("analyze_stock_risk") =>
           C24_Names(result.components, result.explanation.top_risks)

\* six equal scores
C24_Witness ==
    /\ Returned("RiskEngine.generate_explanation")
    /\ \A j \in 1..6 : C24_Score(args.components, j) = 5000
    /\ result.top_risks = << <<"Volatility", 5000>>, <<"Beta", 5000>> >>

\* d passes the schema: the eight fields are present and the confidence is
\* within 0..100
C25_Valid(d) ==
    /\ \A f \in {"ticker", "summary", "key_insights", "strengths",
                 "weaknesses", "opportunities", "threats",
                 "confidence_score"} : f \in DOMAIN d
    /\ d["confidence_score"] \in 0..10000

\* what a step of the workflow does to retry_count and where it goes next
C25_Step ==
    LET ok == C25_Valid(llm.state.structured_analysis)
        before == llm.state.retry_count
        after == llm'.state.retry_count
    IN  /\ (llm.node = "validate_schema" /\ ok) =>
               /\ after = before
               /\ llm'.node = "store_result"
        /\ (llm.node = "validate_schema" /\ ~ok) =>
               /\ after = before + 1
               /\ llm'.node = IF after < 3 THEN "generate_analysis" ELSE "end"
               /\ ~llm'.stored
        /\ llm.node \notin {"validate_schema", "idle", "returned"} =>
               after = before
        /\ llm'.node = "generate_analysis" =>
               /\ after < 3
               /\ llm.node \in {"risk_classification", "validate_schema"}
        /\ llm'.generated > llm.generated =>
               /\ llm.node = "generate_analysis"
               /\ llm'.generated = llm.generated + 1

\* C25: every run of the workflow terminates; generate_analysis executes at
\* most MAX_RETRIES = 3 times; each failed validation increases retry_count
\* by exactly one; the workflow loops back to generate_analysis only while
\* retry_count < 3, goes to store_result as soon as a validation succeeds,
\* and ends without storing after the third failed validation.
C25_WorkflowTerminates ==
    /\ [](llm.generated <= 3)
    /\ [](llm.state.retry_count <= 3)
    /\ []((llm.node \in {"end", "returned"} /\ llm.state.retry_count = 3)
              => ~llm.stored)
    /\ [](llm.stored => (llm.validated # None /\ C25_Valid(llm.validated[1])))
    /\ [][C25_Step]_vars
    /\ (llm.node # "idle") ~> (llm.node = "returned")

\* three generated analyses, three failed validations, nothing stored
C25_Witness ==
    /\ llm.node = "returned"
    /\ llm.generated = 3
    /\ llm.state.retry_count = 3
    /\ ~llm.stored
    /\ llm.ret = None

\* C26: analyze_stock returns a result other than None only when the last
\* validation succeeded, and the result is then the validated form of the
\* most recently generated analysis, never an earlier one; it returns None
\* when every validation failed, when the LLM call or the JSON parse failed
\* on every attempt, and when a node raised; no exception leaves it.
C26_ResultIsLatestValidated ==
    llm.node = "returned" =>
        /\ llm.ret # None =>
               /\ ~llm.raised
               /\ llm.validated # None
               /\ C25_Valid(llm.validated[1])
               /\ llm.response.kind = "json"
               /\ C25_Valid(llm.response.content)
               /\ DOMAIN llm.ret[1] = SchemaFields
               /\ \A f \in SchemaFields :
                      llm.ret[1][f] = llm.response.content[f]
               /\ llm.ret[1]["summary"] = llm.generated
               /\ llm.state.validation_errors = << >>
               /\ llm.stored
        /\ llm.state.retry_count = 3 => llm.ret = None
        /\ llm.response.kind = "raise" => llm.ret = None
        /\ llm.raised => llm.ret = None
        /\ llm.ret = None =>
               \/ llm.raised
               \/ llm.state.retry_count = 3

\* the first analysis fails the schema, the second passes and is returned
C26_Witness ==
    /\ llm.node = "returned"
    /\ llm.generated = 2
    /\ llm.state.retry_count = 1
    /\ llm.ret # None
    /\ llm.ret[1]["summary"] = 2
    /\ "note" \in DOMAIN llm.response.content

\* 0.4 * research_score + 0.3 * signal_score of a recommendation
C27_Key(rec) == 40 * rec.scores.research_score + 30 * rec.scores.signal_score

\* C27: when the endpoint ranks the output of filter_by_risk_band for the
\* same recognized risk level (tolerance, research and signal scores within
\* 0..100), every recommendation returned has the risk_alignment_score
\* 100 * (0.7 + 0.3 * tolerance / 100) and the macro_fit_score 50 whatever its
\* sector, so the result is ordered by 0.4 * research_score +
\* 0.3 * signal_score alone.
C27_PipelineOrder ==
    (Returned("get_recommendations")
       /\ args.user_risk_level \in {"Conservative", "Moderate", "Aggressive"}) =>
      /\ \A i \in 1..Len(result) :
            /\ 10 * result[i].scores.risk_alignment_score
                   = 70000 + 3 * args.user_volatility_tolerance
            /\ result[i].scores.macro_fit_score = 5000
            /\ 100 * result[i].scores.final_score
                   = C27_Key(result[i])
                     + 2 * (70000 + 3 * args.user_volatility_tolerance)
                     + 50000
      /\ \A i, j \in 1..Len(result) :
            i < j => C27_Key(result[i]) >= C27_Key(result[j])

\* a Healthcare and a Technology stock of the Moderate band, the first with
\* the higher research and signal scores
C27_Witness ==
    /\ Returned("get_recommendations")
    /\ args.user_risk_level = "Moderate"
    /\ args.user_volatility_tolerance = 6000
    /\ Len(result) = 2
    /\ result[1].ticker = "JNJ"
    /\ result[2].ticker = "MSFT"
    /\ result[1].scores.risk_alignment_score = 8800
    /\ result[2].scores.risk_alignment_score = 8800

\* C28: rank_recommendations never returns more recommendations than the
\* requested top_n, for every integer top_n, zero and negative ones
\* included (the endpoint passes its limit parameter as top_n); a
\* top_n <= 0 yields an empty result.
C28_AtMostTopN ==
    /\ Returned("rank_recommendations") =>
          /\ Len(result) <= Max(args.top_n, 0)
          /\ args.top_n <= 0 => result = << >>
    /\ Returned("get_recommendations") =>
          /\ Len(result) <= Max(args.limit, 0)
          /\ args.limit <= 0 => result = << >>

\* two signals agree in strength and confidence, or both are absent
C29_SameStrength(x, y) ==
    /\ (x = None) <=> (y = None)
    /\ x # None => /\ x[1].strength = y[1].strength
                   /\ x[1].confidence = y[1].confidence

\* the signals an earnings event (actual - estimate, the estimate being 1.00)
\* and a sentiment event (change from a baseline of 0, 1000 mentions) give,
\* absent signals left out; sign is 1 for the events, -1 for their opposites
C29_Signals(surprise, change, sign) ==
    LET e == detect_earnings_surprise("AAPL", 100 + sign * surprise, 100)
        s == detect_sentiment_spike("AAPL", sign * change, 0, 1000)
    IN  e \o s

\* C29: the strength of a signal does not depend on the direction of the
\* event: an earnings miss and a beat of the same absolute surprise give
\* the same strength and confidence, and so do a negative and a positive
\* sentiment change of the same magnitude with the same mention volume;
\* hence aggregate_signals scores a list of signals and the list of the
\* opposite events alike.
C29_DirectionIndependent ==
    /\ Returned("detect_earnings_surprise") =>
          LET a == args.actual_eps
              e == args.estimated_eps
              opposite == detect_earnings_surprise("AAPL", 2 * e - a, e)
          IN  /\ C29_SameStrength(result, opposite)
              /\ result # None =>
                    /\ opposite[1].metadata.surprise_pct
                           = 0 - result[1].metadata.surprise_pct
                    /\ aggregate_signals(result, "AAPL")
                           = aggregate_signals(opposite, "AAPL")
    /\ Returned("detect_sentiment_spike") =>
          LET cur == args.current_sentiment
              base == args.baseline_sentiment
              vol == args.mention_volume
              opposite == detect_sentiment_spike("AAPL", 2 * base - cur, base, vol)
          IN  /\ C29_SameStrength(result, opposite)
              /\ result # None =>
                    /\ opposite[1].metadata.sentiment_change
                           = 0 - result[1].metadata.sentiment_change
                    /\ aggregate_signals(result, "AAPL")
                           = aggregate_signals(opposite, "AAPL")
                    /\ \A surprise \in {-40, -15, 3, 10, 60} :
                          aggregate_signals(
                              C29_Signals(surprise, cur - base, 1), "AAPL")
                          = aggregate_signals(
                              C29_Signals(surprise, cur - base, -1), "AAPL")

\* an earnings miss of 15%: strength 30 and confidence 95, as for the beat
C29_Witness ==
    /\ Returned("detect_earnings_surprise")
    /\ args.actual_eps = 85
    /\ args.estimated_eps = 100
    /\ result # None
    /\ result[1].strength = 3000
    /\ result[1].metadata.surprise_pct = -1500
    /\ detect_earnings_surprise("AAPL", 115, 100)[1].strength = 3000

\* C30: calculate_beta_score is non-decreasing in beta over the whole range,
\* across beta = 0 as well: no negative beta has a higher score than a
\* non-negative beta, in particular than beta = 0, which scores 0.
C30_BetaMonotone ==
    Returned("calculate_beta_score") =>
        /\ \A b \in {-500, -200, -100, -1, 0, 50, 100, 200, 250} :
              b >= args.beta => calculate_beta_score(b) >= result
        /\ args.beta < 0 => result <= calculate_beta_score(0)
        /\ calculate_beta_score(0) = 0

=============================================================================
